---------------------------- MODULE Spec2Model ----------------------------
(***************************************************************************)
(* The subnet pool allocator of libnetwork (package ipamutils):            *)
(* NetworkChunk (one base prefix subdivided into equal subnets, with a     *)
(* bitmap ledger) and NetworkPool (an ordered list of chunks with a        *)
(* (nextChunk, nextOrdinal) cursor).                                       *)
(*                                                                         *)
(* Integer widths are scaled down so that the state space is finite and    *)
(* small: an IPv4 address has AddrBits4 bits (32 in the code), an IPv6     *)
(* address AddrBits6 bits (128 in the code) and an ordinal OrdBits bits    *)
(* (uint64 in the code).  The order AddrBits4 < OrdBits < AddrBits6 of     *)
(* the code is kept, so an IPv4 chunk never saturates and an IPv6 chunk    *)
(* can.  All arithmetic is done modulo the width, as the code does it.     *)
(***************************************************************************)
EXTENDS Integers, Sequences, FiniteSets, TLC

AddrBits4 == 1
OrdBits == 2
AddrBits6 == 4

VARIABLES
    chunks,       \* NetworkPool.chunks: sequence of NetworkChunk
    nextChunk,    \* NetworkPool.nextChunk (0-based index)
    nextOrdinal,  \* NetworkPool.nextOrdinal
    panicked,     \* a call panicked: the program has aborted
    last,         \* the most recent call, what it returned and what it found
    issued,       \* prefixes handed out and not released since (by network)
    issuedLit,    \* the same, a prefix leaving only when Release gets that very value
    everIssued,   \* prefixes handed out at least once
    proxy,        \* portmapper.StartProxy and the docker-proxy child it starts
    composite,    \* cleanups.Composite: its cleanups field
    cleanup,      \* the function returned by Composite.Release, if any
    heap          \* the ledgers made by bitmap.New, by address, where pools are told apart

\* The variables of the subnet allocator and those of the other packages.
allocVars == <<chunks, nextChunk, nextOrdinal, panicked, issued, issuedLit, everIssued>>
ipamVars == <<allocVars, last>>
otherVars == <<proxy, composite, cleanup, heap>>

vars == <<ipamVars, otherVars>>

\* No pool exists.
AllocIdle ==
    /\ chunks = << >>
    /\ nextChunk = 0
    /\ nextOrdinal = 0
    /\ panicked = FALSE
    /\ issued = {}
    /\ issuedLit = {}
    /\ everIssued = {}

\* The other packages are not in use.
OthersIdle ==
    /\ proxy = [pc |-> "none"]
    /\ composite = [cleanups |-> << >>]
    /\ cleanup = [set |-> FALSE]
    /\ heap = << >>

-----------------------------------------------------------------------------
(* Fixed-width unsigned arithmetic.                                        *)

RECURSIVE Pow2(_)
Pow2(n) == IF n <= 0 THEN 1 ELSE 2 * Pow2(n - 1)

\* x << n in an unsigned integer of w bits.
Lsh(x, n, w) == IF n >= w THEN 0 ELSE (x * Pow2(n)) % Pow2(w)

\* x >> n.
Rsh(x, n) == x \div Pow2(n)

\* x + y in an unsigned integer of w bits.
AddW(x, y, w) == (x + y) % Pow2(w)

\* x - y in an unsigned integer of w bits.
SubW(x, y, w) == (x + Pow2(w) - y) % Pow2(w)

\* Bitwise x & y.
RECURSIVE And(_, _)
And(x, y) ==
    IF x = 0 \/ y = 0 THEN 0
    ELSE 2 * And(x \div 2, y \div 2) + (IF x % 2 = 1 /\ y % 2 = 1 THEN 1 ELSE 0)

MaxUint64 == Pow2(OrdBits) - 1

Min(a, b) == IF a < b THEN a ELSE b

-----------------------------------------------------------------------------
(* netip.Prefix: an address of family 4 or 6 and a prefix length.  The     *)
(* address may have host bits set (a prefix need not be in masked form).   *)

Pfx(f, a, b) == [fam |-> f, addr |-> a, bits |-> b]

\* netip.Prefix{}: the zero, invalid prefix.
ZeroPrefix == Pfx(0, 0, -1)

BitLen(f) == IF f = 4 THEN AddrBits4 ELSE AddrBits6

IsValid(p) == p.fam \in {4, 6} /\ p.bits >= 0 /\ p.bits <= BitLen(p.fam)

\* netip.PrefixFrom: a prefix length out of range yields an invalid prefix.
PrefixFrom(f, a, b) == IF b < 0 \/ b > BitLen(f) THEN Pfx(f, a, -1) ELSE Pfx(f, a, b)

\* netip.Prefix.Masked: the host bits cleared.
Masked(p) ==
    IF ~IsValid(p) THEN ZeroPrefix
    ELSE LET h == BitLen(p.fam) - p.bits
         IN  Pfx(p.fam, (p.addr \div Pow2(h)) * Pow2(h), p.bits)

\* netip.Prefix.Overlaps: the two prefixes share an address.
Overlaps(p, o) ==
    IF ~IsValid(p) \/ ~IsValid(o) THEN FALSE
    ELSE IF p = o THEN TRUE
    ELSE IF p.fam # o.fam THEN FALSE
    ELSE LET minBits == Min(p.bits, o.bits)
             h == BitLen(p.fam) - minBits
         IN  p.addr \div Pow2(h) = o.addr \div Pow2(h)

-----------------------------------------------------------------------------
(* bitmap.Bitmap: the ledger of one chunk, bits ordinals of which the ones *)
(* in set are set.                                                         *)

BitmapNew(n) == [bits |-> n, set |-> {}]

Free(b, lo, hi) == {i \in lo..hi : i \notin b.set}

SetMin(S) == CHOOSE x \in S : \A y \in S : x <= y

\* The value of a singleton set.  The({e : x \in {v}}) is e with x bound to
\* the value of v, which is then computed once however often e uses it.
The(S) == CHOOSE v \in S : TRUE

\* SetAny(WithRange(lo, hi)): sets and returns the lowest clear bit of
\* [lo, hi]; an out-of-bounds range is an error other than ErrNoBitAvailable.
SetAnyInRange(b, lo, hi) ==
    IF lo > hi \/ hi >= b.bits
    THEN [err |-> "OutOfRange", n |-> 0, b |-> b]
    ELSE The({IF free = {}
              THEN [err |-> "NoBitAvailable", n |-> 0, b |-> b]
              ELSE The({[err |-> "", n |-> n, b |-> [b EXCEPT !.set = @ \cup {n}]] :
                           n \in {SetMin(free)}}) :
                 free \in {Free(b, lo, hi)}})

\* SetAny(): the whole bitmap.
SetAny(b) ==
    The({IF free = {}
         THEN [err |-> "NoBitAvailable", n |-> 0, b |-> b]
         ELSE The({[err |-> "", n |-> n, b |-> [b EXCEPT !.set = @ \cup {n}]] :
                      n \in {SetMin(free)}}) :
            free \in {Free(b, 0, b.bits - 1)}})

\* Unset(n): clears bit n; clearing a clear bit is not an error, an ordinal
\* that is not a bit of the bitmap is.
Unset(b, n) ==
    IF n >= b.bits
    THEN [err |-> "OutOfRange", b |-> b]
    ELSE [err |-> "", b |-> [b EXCEPT !.set = @ \ {n}]]

\* The variadic opts of SetAny: none, or one WithRange(lo, hi).
SetAnyOpts(b, opts) ==
    IF opts = <<>> THEN SetAny(b) ELSE SetAnyInRange(b, opts[1], opts[2])

-----------------------------------------------------------------------------
(* NetworkChunk.                                                           *)

\* NewChunk without the test of subnetBits against the address length.
NewChunkNoUpperBound(base, subnetBits) ==
    IF ~IsValid(base)
    THEN [ok |-> FALSE, c |-> <<>>]
    ELSE IF base.bits > subnetBits
    THEN [ok |-> FALSE, c |-> <<>>]
    ELSE LET lgn == subnetBits - base.bits
             n == IF lgn < OrdBits THEN Lsh(1, lgn, OrdBits) ELSE MaxUint64
         IN  [ok |-> TRUE,
              c |-> [base |-> Masked(base), subbits |-> subnetBits,
                     allocated |-> BitmapNew(n)]]

\* NewChunk saturating only above 2^OrdBits subnets: 1 << OrdBits is 0.
NewChunkSaturateLate(base, subnetBits) ==
    IF ~IsValid(base)
    THEN [ok |-> FALSE, c |-> <<>>]
    ELSE IF subnetBits > BitLen(base.fam) \/ base.bits > subnetBits
    THEN [ok |-> FALSE, c |-> <<>>]
    ELSE LET lgn == subnetBits - base.bits
             n == IF lgn <= OrdBits THEN Lsh(1, lgn, OrdBits) ELSE MaxUint64
         IN  [ok |-> TRUE,
              c |-> [base |-> Masked(base), subbits |-> subnetBits,
                     allocated |-> BitmapNew(n)]]

\* NewChunk saturating one bit early.
NewChunkSaturateEarly(base, subnetBits) ==
    IF ~IsValid(base)
    THEN [ok |-> FALSE, c |-> <<>>]
    ELSE IF subnetBits > BitLen(base.fam) \/ base.bits > subnetBits
    THEN [ok |-> FALSE, c |-> <<>>]
    ELSE LET lgn == subnetBits - base.bits
             n == IF lgn < OrdBits - 1 THEN Lsh(1, lgn, OrdBits) ELSE MaxUint64
         IN  [ok |-> TRUE,
              c |-> [base |-> Masked(base), subbits |-> subnetBits,
                     allocated |-> BitmapNew(n)]]

\* NewChunk giving a chunk of full-length subnets room for one subnet only.
NewChunkSingleHost(base, subnetBits) ==
    IF ~IsValid(base)
    THEN [ok |-> FALSE, c |-> <<>>]
    ELSE IF subnetBits > BitLen(base.fam) \/ base.bits > subnetBits
    THEN [ok |-> FALSE, c |-> <<>>]
    ELSE LET lgn == subnetBits - base.bits
             n == IF subnetBits = BitLen(base.fam) THEN 1
                  ELSE IF lgn < OrdBits THEN Lsh(1, lgn, OrdBits) ELSE MaxUint64
         IN  [ok |-> TRUE,
              c |-> [base |-> Masked(base), subbits |-> subnetBits,
                     allocated |-> BitmapNew(n)]]

\* NewChunk keeping the base as it was given, host bits included.
NewChunkKeepBase(base, subnetBits) ==
    IF ~IsValid(base)
    THEN [ok |-> FALSE, c |-> <<>>]
    ELSE IF subnetBits > BitLen(base.fam) \/ base.bits > subnetBits
    THEN [ok |-> FALSE, c |-> <<>>]
    ELSE LET lgn == subnetBits - base.bits
             n == IF lgn < OrdBits THEN Lsh(1, lgn, OrdBits) ELSE MaxUint64
         IN  [ok |-> TRUE,
              c |-> [base |-> base, subbits |-> subnetBits,
                     allocated |-> BitmapNew(n)]]

\* NewChunk(base, subnetBits).
NewChunk(base, subnetBits) ==
    IF ~IsValid(base)
    THEN [ok |-> FALSE, c |-> <<>>]
    ELSE IF subnetBits > BitLen(base.fam) \/ base.bits > subnetBits
    THEN [ok |-> FALSE, c |-> <<>>]
    ELSE LET lgn == subnetBits - base.bits
             n == IF lgn < OrdBits THEN Lsh(1, lgn, OrdBits) ELSE MaxUint64
         IN  [ok |-> TRUE,
              c |-> [base |-> Masked(base), subbits |-> subnetBits,
                     allocated |-> BitmapNew(n)]]

\* NetworkChunk.Len.
ChunkLen(c) == c.allocated.bits

\* NetworkChunk.Base.
ChunkBase(c) == c.base

\* prefixOf shifting by subbits instead of BitLen - subbits.
prefixOfShiftBySubbits(c, ordinal) ==
    LET w == BitLen(c.base.fam)
    IN  IF c.base.fam = 4
        THEN PrefixFrom(4, AddW(c.base.addr, Lsh(ordinal % Pow2(w), c.subbits, w), w), c.subbits)
        ELSE PrefixFrom(6, AddW(c.base.addr, Lsh(ordinal, c.subbits, w), w), c.subbits)

\* prefixOf truncating the ordinal to the IPv4 width in the IPv6 case too.
prefixOfTruncated(c, ordinal) ==
    LET w == BitLen(c.base.fam)
        shift == w - c.subbits
    IN  PrefixFrom(c.base.fam,
                   AddW(c.base.addr, Lsh(ordinal % Pow2(AddrBits4), shift, w), w), c.subbits)

\* NetworkChunk.prefixOf: base + (ordinal << (BitLen - subbits)).
prefixOf(c, ordinal) ==
    LET w == BitLen(c.base.fam)
        shift == w - c.subbits
    IN  IF c.base.fam = 4
        THEN PrefixFrom(4, AddW(c.base.addr, Lsh(ordinal % Pow2(w), shift, w), w), c.subbits)
        ELSE PrefixFrom(6, AddW(c.base.addr, Lsh(ordinal, shift, w), w), c.subbits)

\* ordinalOf with the mask computed from the subnet length instead of the
\* base length: the host bits are extracted, not the subnet bits.
ordinalOfHostMask(c, p) ==
    IF ~IsValid(p) \/ p.bits # c.subbits \/ ~Overlaps(c.base, p)
    THEN [ok |-> FALSE, panic |-> FALSE, n |-> 0]
    ELSE LET m == Masked(p)
             w == BitLen(c.base.fam)
             submask == SubW(Lsh(1, w - c.subbits, w), 1, w)
             addr == Rsh(And(m.addr, submask), BitLen(m.fam) - m.bits)
         IN  IF m.fam = 4
             THEN [ok |-> TRUE, panic |-> FALSE, n |-> addr]
             ELSE IF addr >= Pow2(OrdBits)
             THEN [ok |-> FALSE, panic |-> TRUE, n |-> 0]
             ELSE [ok |-> TRUE, panic |-> FALSE, n |-> addr]

\* ordinalOf without the test that the prefix lies inside the base.
ordinalOfNoOverlap(c, p) ==
    IF ~IsValid(p) \/ p.bits # c.subbits \/ p.fam # c.base.fam
    THEN [ok |-> FALSE, panic |-> FALSE, n |-> 0]
    ELSE LET m == Masked(p)
             w == BitLen(c.base.fam)
             submask == SubW(Lsh(1, w - c.base.bits, w), 1, w)
             addr == Rsh(And(m.addr, submask), BitLen(m.fam) - m.bits)
         IN  IF m.fam = 4
             THEN [ok |-> TRUE, panic |-> FALSE, n |-> addr]
             ELSE IF addr >= Pow2(OrdBits)
             THEN [ok |-> FALSE, panic |-> TRUE, n |-> 0]
             ELSE [ok |-> TRUE, panic |-> FALSE, n |-> addr]

\* ordinalOf without the Is4 branch: the 128-bit widths are used for an IPv4
\* prefix too.
ordinalOfNoIs4(c, p) ==
    IF ~IsValid(p) \/ p.bits # c.subbits \/ ~Overlaps(c.base, p)
    THEN [ok |-> FALSE, panic |-> FALSE, n |-> 0]
    ELSE LET m == Masked(p)
             submask == SubW(Lsh(1, AddrBits6 - c.base.bits, AddrBits6), 1, AddrBits6)
             addr == Rsh(And(m.addr, submask), AddrBits6 - m.bits)
         IN  IF addr >= Pow2(OrdBits)
             THEN [ok |-> FALSE, panic |-> TRUE, n |-> 0]
             ELSE [ok |-> TRUE, panic |-> FALSE, n |-> addr]

\* NetworkChunk.ordinalOf: ok is false for a prefix that is no subnet of the
\* chunk; panic is the "bug: got out of range value" abort.
ordinalOf(c, p) ==
    IF ~IsValid(p) \/ p.bits # c.subbits \/ ~Overlaps(c.base, p)
    THEN [ok |-> FALSE, panic |-> FALSE, n |-> 0]
    ELSE LET m == Masked(p)
             w == BitLen(c.base.fam)
             submask == SubW(Lsh(1, w - c.base.bits, w), 1, w)
             addr == Rsh(And(m.addr, submask), BitLen(m.fam) - m.bits)
         IN  IF m.fam = 4
             THEN [ok |-> TRUE, panic |-> FALSE, n |-> addr]
             ELSE IF addr >= Pow2(OrdBits)
             THEN [ok |-> FALSE, panic |-> TRUE, n |-> 0]
             ELSE [ok |-> TRUE, panic |-> FALSE, n |-> addr]

\* Allocate reporting the ordinal counted from one.
ChunkAllocateOneBased(c, opts) ==
    LET r == SetAnyOpts(c.allocated, opts)
    IN  IF r.err = "NoBitAvailable"
        THEN [ok |-> FALSE, panic |-> FALSE, prefix |-> ZeroPrefix, ordinal |-> 0, c |-> c]
        ELSE IF r.err # ""
        THEN [ok |-> FALSE, panic |-> TRUE, prefix |-> ZeroPrefix, ordinal |-> 0, c |-> c]
        ELSE [ok |-> TRUE, panic |-> FALSE, prefix |-> prefixOf(c, r.n), ordinal |-> r.n + 1,
              c |-> [c EXCEPT !.allocated = r.b]]

\* Allocate returning none for every error of the ledger.
ChunkAllocateSwallow(c, opts) ==
    LET r == SetAnyOpts(c.allocated, opts)
    IN  IF r.err # ""
        THEN [ok |-> FALSE, panic |-> FALSE, prefix |-> ZeroPrefix, ordinal |-> 0, c |-> c]
        ELSE [ok |-> TRUE, panic |-> FALSE, prefix |-> prefixOf(c, r.n), ordinal |-> r.n,
              c |-> [c EXCEPT !.allocated = r.b]]

\* NetworkChunk.Allocate(opts...): c is the chunk afterwards.
ChunkAllocate(c, opts) ==
    The({IF r.err = "NoBitAvailable"
         THEN [ok |-> FALSE, panic |-> FALSE, prefix |-> ZeroPrefix, ordinal |-> 0, c |-> c]
         ELSE IF r.err # ""
         THEN [ok |-> FALSE, panic |-> TRUE, prefix |-> ZeroPrefix, ordinal |-> 0, c |-> c]
         ELSE [ok |-> TRUE, panic |-> FALSE, prefix |-> prefixOf(c, r.n), ordinal |-> r.n,
               c |-> [c EXCEPT !.allocated = r.b]] :
            r \in {SetAnyOpts(c.allocated, opts)}})

\* Release answering whether the prefix was allocated, not whether it is a
\* member: false for a member whose bit is clear already.
ChunkReleaseStrict(c, p) ==
    LET o == ordinalOf(c, p)
    IN  IF o.panic THEN [ok |-> FALSE, panic |-> TRUE, c |-> c]
        ELSE IF ~o.ok THEN [ok |-> FALSE, panic |-> FALSE, c |-> c]
        ELSE LET u == Unset(c.allocated, o.n)
             IN  IF u.err # "" THEN [ok |-> FALSE, panic |-> TRUE, c |-> c]
                 ELSE [ok |-> o.n \in c.allocated.set, panic |-> FALSE,
                       c |-> [c EXCEPT !.allocated = u.b]]

\* Release clearing the whole ledger of the chunk the prefix is a member of.
ChunkReleaseWhole(c, p) ==
    LET o == ordinalOf(c, p)
    IN  IF o.panic THEN [ok |-> FALSE, panic |-> TRUE, c |-> c]
        ELSE IF ~o.ok THEN [ok |-> FALSE, panic |-> FALSE, c |-> c]
        ELSE LET u == Unset(c.allocated, o.n)
             IN  IF u.err # "" THEN [ok |-> FALSE, panic |-> TRUE, c |-> c]
                 ELSE [ok |-> TRUE, panic |-> FALSE,
                       c |-> [c EXCEPT !.allocated = BitmapNew(c.allocated.bits)]]

\* NetworkChunk.Release(p): c is the chunk afterwards.
ChunkRelease(c, p) ==
    The({IF o.panic THEN [ok |-> FALSE, panic |-> TRUE, c |-> c]
         ELSE IF ~o.ok THEN [ok |-> FALSE, panic |-> FALSE, c |-> c]
         ELSE The({IF u.err # "" THEN [ok |-> FALSE, panic |-> TRUE, c |-> c]
                   ELSE [ok |-> TRUE, panic |-> FALSE, c |-> [c EXCEPT !.allocated = u.b]] :
                      u \in {Unset(c.allocated, o.n)}}) :
            o \in {ordinalOf(c, p)}})

-----------------------------------------------------------------------------
(* NetworkPool.  A pool value is [chunks, nextChunk, nextOrdinal]; chunk   *)
(* index i of the code is element i + 1 of the sequence.                   *)

\* The error of NewPool, by what its message holds: "invalid base network
\* prefix at index i" (kind "base"), "base network prefix b overlaps o" (kind
\* "overlap", no index), "invalid size at index i" (kind "size").
NoError == [kind |-> "", index |-> -1, base |-> ZeroPrefix, other |-> ZeroPrefix]
\* The message counting descriptors from one.
ErrAtIndexOneBased(k, i) ==
    [kind |-> k, index |-> i + 1, base |-> ZeroPrefix, other |-> ZeroPrefix]

ErrAtIndex(k, i) == [kind |-> k, index |-> i, base |-> ZeroPrefix, other |-> ZeroPrefix]
ErrOverlap(b, o) == [kind |-> "overlap", index |-> -1, base |-> b, other |-> o]

\* NewPool comparing bases for equality instead of overlap.
RECURSIVE NewPoolFromSameBase(_, _)
NewPoolFromSameBase(nets, done) ==
    IF Len(done) = Len(nets)
    THEN [ok |-> TRUE, err |-> NoError,
          pool |-> [chunks |-> done, nextChunk |-> 0, nextOrdinal |-> 0]]
    ELSE LET i == Len(done) + 1
             base == nets[i].Base
             hit == {j \in 1..Len(done) : Masked(base) = done[j].base}
         IN  IF ~IsValid(base)
             THEN [ok |-> FALSE, err |-> ErrAtIndex("base", i - 1), pool |-> <<>>]
             ELSE IF hit # {}
             THEN [ok |-> FALSE, err |-> ErrOverlap(base, done[SetMin(hit)].base), pool |-> <<>>]
             ELSE LET r == NewChunk(base, nets[i].Size)
                  IN  IF ~r.ok
                      THEN [ok |-> FALSE, err |-> ErrAtIndex("size", i - 1), pool |-> <<>>]
                      ELSE NewPoolFromSameBase(nets, Append(done, r.c))

\* NewPool(nets): nets is a sequence of [Base, Size]; an unparseable Base
\* is the zero prefix.  Chunks are built in order, each checked against the
\* chunks before it, the earliest first.  pool is <<>> for the nil *NetworkPool.
RECURSIVE NewPoolFrom(_, _)
NewPoolFrom(nets, done) ==
    IF Len(done) = Len(nets)
    THEN [ok |-> TRUE, err |-> NoError,
          pool |-> [chunks |-> done, nextChunk |-> 0, nextOrdinal |-> 0]]
    ELSE LET i == Len(done) + 1
             base == nets[i].Base
             hit == {j \in 1..Len(done) : Overlaps(base, done[j].base)}
         IN  IF ~IsValid(base)
             THEN [ok |-> FALSE, err |-> ErrAtIndex("base", i - 1), pool |-> <<>>]
             ELSE IF hit # {}
             THEN [ok |-> FALSE, err |-> ErrOverlap(base, done[SetMin(hit)].base), pool |-> <<>>]
             ELSE LET r == NewChunk(base, nets[i].Size)
                  IN  IF ~r.ok
                      THEN [ok |-> FALSE, err |-> ErrAtIndex("size", i - 1), pool |-> <<>>]
                      ELSE NewPoolFrom(nets, Append(done, r.c))

\* NewPool refusing an empty list of descriptors.
NewPoolRejectEmpty(nets) ==
    IF nets = << >>
    THEN [ok |-> FALSE, err |-> ErrAtIndex("base", 0), pool |-> <<>>]
    ELSE NewPoolFrom(nets, <<>>)

NewPool(nets) == NewPoolFrom(nets, <<>>)

\* setNext comparing with the number of subnets of the chunk, saturated or
\* not, instead of Len().
setNextTrueCount(p, currChunk, currN) ==
    IF currN >= Pow2(p.chunks[currChunk + 1].subbits - p.chunks[currChunk + 1].base.bits) - 1
    THEN [p EXCEPT !.nextChunk = IF currChunk + 1 >= Len(p.chunks) THEN 0 ELSE currChunk + 1,
                   !.nextOrdinal = 0]
    ELSE [p EXCEPT !.nextChunk = currChunk, !.nextOrdinal = currN + 1]

\* setNext comparing with Len() instead of Len() - 1.
setNextOffByOne(p, currChunk, currN) ==
    IF currN >= ChunkLen(p.chunks[currChunk + 1])
    THEN [p EXCEPT !.nextChunk = IF currChunk + 1 >= Len(p.chunks) THEN 0 ELSE currChunk + 1,
                   !.nextOrdinal = 0]
    ELSE [p EXCEPT !.nextChunk = currChunk, !.nextOrdinal = currN + 1]

\* setNext leaving the cursor on the subnet just allocated.
setNextStay(p, currChunk, currN) ==
    [p EXCEPT !.nextChunk = currChunk, !.nextOrdinal = currN]

\* setNext moving past the last chunk instead of back to the first.
setNextNoWrap(p, currChunk, currN) ==
    IF currN >= ChunkLen(p.chunks[currChunk + 1]) - 1
    THEN [p EXCEPT !.nextChunk = currChunk + 1, !.nextOrdinal = 0]
    ELSE [p EXCEPT !.nextChunk = currChunk, !.nextOrdinal = currN + 1]

\* NetworkPool.setNext(currChunk, currN).
setNext(p, currChunk, currN) ==
    IF currN >= ChunkLen(p.chunks[currChunk + 1]) - 1
    THEN [p EXCEPT !.nextChunk = IF currChunk + 1 >= Len(p.chunks) THEN 0 ELSE currChunk + 1,
                   !.nextOrdinal = 0]
    ELSE [p EXCEPT !.nextChunk = currChunk, !.nextOrdinal = currN + 1]

NoAllocation(p, pan) ==
    [ok |-> FALSE, panic |-> pan, prefix |-> ZeroPrefix, chunk |-> -1, ordinal |-> 0, pool |-> p]

\* chunk.Allocate(opts) followed by setNext whether it succeeded or not.
AllocateInAlwaysNext(p, chk, opts) ==
    The({IF r.ok
         THEN [ok |-> TRUE, panic |-> FALSE, prefix |-> r.prefix, chunk |-> chk,
               ordinal |-> r.ordinal,
               pool |-> setNext([p EXCEPT !.chunks[chk + 1] = r.c], chk, r.ordinal)]
         ELSE NoAllocation(setNext(p, chk, 0), r.panic) :
            r \in {ChunkAllocate(p.chunks[chk + 1], opts)}})

\* One chunk.Allocate(opts) of NetworkPool.Allocate and, when it succeeds,
\* the setNext that follows it.
AllocateIn(p, chk, opts) ==
    The({IF r.ok
         THEN [ok |-> TRUE, panic |-> FALSE, prefix |-> r.prefix, chunk |-> chk,
               ordinal |-> r.ordinal,
               pool |-> setNext([p EXCEPT !.chunks[chk + 1] = r.c], chk, r.ordinal)]
         ELSE NoAllocation(p, r.panic) :
            r \in {ChunkAllocate(p.chunks[chk + 1], opts)}})

\* The other chunks in index order, starting from chunk 0 instead of from
\* the chunk after the cursor's.
OtherChunksFromZero(p) ==
    [i \in 1..(Len(p.chunks) - 1) |-> IF i - 1 < p.nextChunk THEN i - 1 ELSE i]

\* The two loops over the other chunks: nextChunk+1 .. len-1, then
\* 0 .. nextChunk-1.
OtherChunks(p) ==
    [i \in 1..(Len(p.chunks) - 1) |->
        IF p.nextChunk + i < Len(p.chunks) THEN p.nextChunk + i
        ELSE p.nextChunk + i - Len(p.chunks)]

\* The loops over the other chunks giving up after the first chunk tried.
ScanOthersOnce(p, order, i) ==
    IF i > Len(order) THEN NoAllocation(p, FALSE)
    ELSE AllocateIn(p, order[i], <<>>)

RECURSIVE ScanOthers(_, _, _)
ScanOthers(p, order, i) ==
    IF i > Len(order) THEN NoAllocation(p, FALSE)
    ELSE The({IF r.ok \/ r.panic THEN r ELSE ScanOthers(p, order, i + 1) :
                 r \in {AllocateIn(p, order[i], <<>>)}})

\* Allocate without the final scan of the cursor chunk's left half.
PoolAllocateNoLeft(p) ==
    IF Len(p.chunks) = 0 THEN NoAllocation(p, FALSE)
    ELSE LET right == AllocateIn(p, p.nextChunk,
                          <<p.nextOrdinal,
                            SubW(ChunkLen(p.chunks[p.nextChunk + 1]), 1, OrdBits)>>)
         IN  IF right.ok \/ right.panic THEN right
             ELSE ScanOthers(p, OtherChunks(p), 1)

\* Allocate scanning the cursor chunk's left half before the other chunks.
PoolAllocateLeftFirst(p) ==
    IF Len(p.chunks) = 0 THEN NoAllocation(p, FALSE)
    ELSE LET right == AllocateIn(p, p.nextChunk,
                          <<p.nextOrdinal,
                            SubW(ChunkLen(p.chunks[p.nextChunk + 1]), 1, OrdBits)>>)
             left == AllocateIn(p, p.nextChunk, <<0, p.nextOrdinal>>)
         IN  IF right.ok \/ right.panic THEN right
             ELSE IF left.ok \/ left.panic THEN left
             ELSE ScanOthers(p, OtherChunks(p), 1)

\* Allocate scanning the other chunks before the cursor chunk.
PoolAllocateOthersFirst(p) ==
    IF Len(p.chunks) = 0 THEN NoAllocation(p, FALSE)
    ELSE LET others == ScanOthers(p, OtherChunks(p), 1)
             right == AllocateIn(p, p.nextChunk,
                          <<p.nextOrdinal,
                            SubW(ChunkLen(p.chunks[p.nextChunk + 1]), 1, OrdBits)>>)
         IN  IF others.ok \/ others.panic THEN others
             ELSE IF right.ok \/ right.panic THEN right
             ELSE AllocateIn(p, p.nextChunk, <<0, p.nextOrdinal>>)

\* NetworkPool.Allocate.
PoolAllocate(p) ==
    IF Len(p.chunks) = 0 THEN NoAllocation(p, FALSE)
    ELSE The({IF right.ok \/ right.panic THEN right
              ELSE The({IF others.ok \/ others.panic THEN others
                        ELSE AllocateIn(p, p.nextChunk, <<0, p.nextOrdinal>>) :
                           others \in {The({ScanOthers(p, order, 1) :
                                               order \in {OtherChunks(p)}})}}) :
                 right \in {AllocateIn(p, p.nextChunk,
                                <<p.nextOrdinal,
                                  SubW(ChunkLen(p.chunks[p.nextChunk + 1]), 1, OrdBits)>>)}})

\* NetworkPool.Release(prefix): ok = ok || chunks[i].Release(prefix), so no
\* chunk is asked once one has answered true.
RECURSIVE ReleaseFrom(_, _, _)
ReleaseFrom(p, prefix, i) ==
    IF i > Len(p.chunks) THEN [ok |-> FALSE, panic |-> FALSE, pool |-> p]
    ELSE The({IF r.panic THEN [ok |-> FALSE, panic |-> TRUE, pool |-> p]
              ELSE IF r.ok THEN [ok |-> TRUE, panic |-> FALSE,
                                 pool |-> [p EXCEPT !.chunks[i] = r.c]]
              ELSE ReleaseFrom(p, prefix, i + 1) :
                 r \in {ChunkRelease(p.chunks[i], prefix)}})

\* Release moving the cursor back to the start of the pool.
PoolReleaseRewind(p, prefix) ==
    LET r == ReleaseFrom(p, prefix, 1)
    IN  IF r.ok THEN [r EXCEPT !.pool.nextChunk = 0, !.pool.nextOrdinal = 0] ELSE r

PoolRelease(p, prefix) == ReleaseFrom(p, prefix, 1)

-----------------------------------------------------------------------------
(* The pools and the prefixes the model is run on.                         *)

\* The n-th prefix of length b of the IPv6 and of the IPv4 address space.
P6(n, b) == Pfx(6, n * Pow2(AddrBits6 - b), b)
P4(n, b) == Pfx(4, n * Pow2(AddrBits4 - b), b)

Net(base, size) == [Base |-> base, Size |-> size]

\* Four chunks of one subnet each; two chunks of two; one chunk of four
\* (saturated when OrdBits = 2); an IPv4 chunk of two with an IPv6 chunk of
\* one; a chunk with more than 2^OrdBits subnets followed by a chunk of one;
\* a chunk of one followed by a chunk of two whose base is not masked; no
\* chunk at all.
PoolNets ==
    { << >>,
      << Net(P6(0, 3), 3), Net(P6(1, 3), 3), Net(P6(2, 3), 3), Net(P6(3, 3), 3) >>,
      << Net(P6(0, 2), 3), Net(P6(1, 2), 3) >>,
      << Net(P6(0, 1), 3) >>,
      << Net(P4(0, 0), 1), Net(P6(1, 1), 1) >>,
      << Net(P6(0, 1), OrdBits + 2), Net(P6(1, 1), 1) >>,
      << Net(P6(0, 2), 2), Net(Pfx(6, P6(1, 1).addr + 1, 1), 2) >> }

\* The subnet with ordinal n of chunk c, computed without wrap-around.
SubnetAt(c, n) ==
    Pfx(c.base.fam, c.base.addr + n * Pow2(BitLen(c.base.fam) - c.subbits), c.subbits)

\* The number of subnets of chunk c, not saturated.
TrueLen(c) == Pow2(c.subbits - c.base.bits)

\* The prefixes Release is called with, for a chunk: its allocatable subnets,
\* up to two subnets beyond them, and an unmasked spelling of its first
\* subnet.
ChunkInputs(c) ==
    {SubnetAt(c, n) : n \in 0..(Min(TrueLen(c), ChunkLen(c) + 2) - 1)}
        \cup (IF BitLen(c.base.fam) > c.subbits
              THEN {Pfx(c.base.fam, c.base.addr + 1, c.subbits)} ELSE {})

\* Prefixes that are no subnet of chunk c: its base taken one bit shorter,
\* and the prefix of subnet length that follows its base.
NonMembers(c) ==
    LET w == BitLen(c.base.fam)
        after == c.base.addr + Pow2(w - c.base.bits)
    IN  (IF c.subbits > 0 THEN {Pfx(c.base.fam, c.base.addr, c.subbits - 1)} ELSE {})
        \cup (IF after < Pow2(w) THEN {Pfx(c.base.fam, after, c.subbits)} ELSE {})

\* The prefixes Release is called with, for a pool: those of its chunks, the
\* non-members of its first chunk and the zero prefix; for the pool without
\* chunks the zero prefix and a valid prefix of each family.
ReleaseInputs(cs) ==
    IF cs = << >> THEN {ZeroPrefix, P4(0, 0), P6(1, 2)}
    ELSE UNION {ChunkInputs(cs[i]) : i \in 1..Len(cs)} \cup NonMembers(cs[1]) \cup {ZeroPrefix}

-----------------------------------------------------------------------------
(* The calls.  last records the most recent call: what it was given and    *)
(* returned, the pool it found (before), and what the history says of it:  *)
(* held (Allocate: the returned prefix was issued and not released since), *)
(* heldLit (the same, counting only a Release of that very prefix value),  *)
(* freed (Release: the subnet whose set bit this call cleared; Allocate:   *)
(* the subnet the call right before it freed), repeat (Release: the call   *)
(* right before it was a Release of the same prefix) and serial (Release:  *)
(* the call right before it was the Allocate that returned the prefix      *)
(* released; Allocate: the call right before it was such a Release).       *)

Pool == [chunks |-> chunks, nextChunk |-> nextChunk, nextOrdinal |-> nextOrdinal]

NoPool == [chunks |-> << >>, nextChunk |-> 0, nextOrdinal |-> 0]

NoCall == [op |-> "none", arg |-> ZeroPrefix, ok |-> FALSE, prefix |-> ZeroPrefix,
           chunk |-> -1, ordinal |-> 0, before |-> NoPool,
           held |-> FALSE, heldLit |-> FALSE, freed |-> ZeroPrefix, repeat |-> FALSE]

Init ==
    /\ \E nets \in PoolNets :
          LET r == NewPool(nets)
          IN  /\ r.ok
              /\ chunks = r.pool.chunks
              /\ nextChunk = r.pool.nextChunk
              /\ nextOrdinal = r.pool.nextOrdinal
    /\ panicked = FALSE
    /\ last = NoCall
    /\ issued = {}
    /\ issuedLit = {}
    /\ everIssued = {}
    /\ OthersIdle

\* prefix, ok := pool.Allocate()
Allocate ==
    /\ ~panicked
    /\ \E pool \in {Pool} : \E r \in {PoolAllocate(pool)} :
           /\ chunks' = r.pool.chunks
           /\ nextChunk' = r.pool.nextChunk
           /\ nextOrdinal' = r.pool.nextOrdinal
           /\ panicked' = r.panic
           /\ last' = [op |-> "Allocate", arg |-> ZeroPrefix, ok |-> r.ok,
                       prefix |-> r.prefix, chunk |-> r.chunk, ordinal |-> r.ordinal,
                       before |-> pool,
                       held |-> r.ok /\ r.prefix \in issued,
                       heldLit |-> r.ok /\ r.prefix \in issuedLit,
                       freed |-> IF last.op = "Release" THEN last.freed ELSE ZeroPrefix,
                       repeat |-> FALSE,
                       serial |-> last.op = "Release" /\ last.serial]
           /\ issued' = IF r.ok THEN issued \cup {r.prefix} ELSE issued
           /\ issuedLit' = IF r.ok THEN issuedLit \cup {r.prefix} ELSE issuedLit
           /\ everIssued' = IF r.ok THEN everIssued \cup {r.prefix} ELSE everIssued
    /\ UNCHANGED otherVars

\* ok := pool.Release(p)
Release(p) ==
    /\ ~panicked
    /\ \E pool \in {Pool} : \E r \in {PoolRelease(pool, p)} :
           /\ chunks' = r.pool.chunks
           /\ nextChunk' = r.pool.nextChunk
           /\ nextOrdinal' = r.pool.nextOrdinal
           /\ panicked' = r.panic
           /\ last' = [op |-> "Release", arg |-> p, ok |-> r.ok,
                       prefix |-> ZeroPrefix, chunk |-> -1, ordinal |-> 0,
                       before |-> pool,
                       held |-> FALSE, heldLit |-> FALSE,
                       freed |-> IF r.pool.chunks # chunks
                                 THEN Masked(p) ELSE ZeroPrefix,
                       repeat |-> last.op = "Release" /\ last.arg = p,
                       serial |-> last.op = "Allocate" /\ last.ok /\ last.prefix = p]
           /\ issued' = IF r.panic THEN issued ELSE issued \ {Masked(p)}
           /\ issuedLit' = IF r.panic THEN issuedLit ELSE issuedLit \ {p}
    /\ UNCHANGED everIssued
    /\ UNCHANGED otherVars

Next ==
    \/ Allocate
    \/ \E p \in ReleaseInputs(chunks) : Release(p)

Spec == Init /\ [][Next]_vars

-----------------------------------------------------------------------------
(* The vocabulary of the properties.  A slot is <<chunk index, ordinal>>;  *)
(* the slots of a pool are the ordinals below each chunk's Len().          *)

Slots(p) ==
    UNION {{<<i - 1, n>> : n \in 0..(ChunkLen(p.chunks[i]) - 1)} : i \in 1..Len(p.chunks)}

Allocated(p) == {s \in Slots(p) : s[2] \in p.chunks[s[1] + 1].allocated.set}

FreeSlots(p) == Slots(p) \ Allocated(p)

\* The subnet a slot stands for.
SlotPrefix(p, s) == SubnetAt(p.chunks[s[1] + 1], s[2])

Cursor(p) == <<p.nextChunk, p.nextOrdinal>>

\* The slots the most recent call set, and the slots it cleared.
Taken == Allocated(Pool) \ Allocated(last.before)
Cleared == Allocated(last.before) \ Allocated(Pool)

\* The place of a slot in the chunks laid end to end, and the number of slots.
RECURSIVE LenUpTo(_, _)
LenUpTo(p, i) == IF i = 0 THEN 0 ELSE LenUpTo(p, i - 1) + ChunkLen(p.chunks[i])

Place(p, s) == LenUpTo(p, s[1]) + s[2]

Total(p) == LenUpTo(p, Len(p.chunks))

\* How many slots the scan that starts at the cursor visits before slot s.
ScanPos(p, s) == (Place(p, s) + Total(p) - Place(p, Cursor(p))) % Total(p)

\* The clear ordinals of chunk i within [lo, hi].
FreeIn(p, i, lo, hi) == {n \in lo..hi : <<i, n>> \in FreeSlots(p)}

\* The first free slot in the order: the cursor chunk from the cursor ordinal
\* to its end, the chunks after it, the chunks before it, the cursor chunk
\* from 0 to the cursor ordinal.  <<-1, 0>> when no slot is free.
FirstFree(p) ==
    LET bi == p.nextChunk
        n == p.nextOrdinal
        count == Len(p.chunks)
        right == FreeIn(p, bi, n, ChunkLen(p.chunks[bi + 1]) - 1)
        following == [j \in 1..(count - 1) |-> (bi + j) % count]
        withFree == {j \in 1..(count - 1) :
                        FreeIn(p, following[j], 0, ChunkLen(p.chunks[following[j] + 1]) - 1) # {}}
        left == FreeIn(p, bi, 0, n)
    IN  IF count = 0 THEN <<-1, 0>>
        ELSE IF right # {} THEN <<bi, SetMin(right)>>
        ELSE IF withFree # {}
        THEN LET k == following[SetMin(withFree)]
             IN  <<k, SetMin(FreeIn(p, k, 0, ChunkLen(p.chunks[k + 1]) - 1))>>
        ELSE IF left # {} THEN <<bi, SetMin(left)>>
        ELSE <<-1, 0>>

AllocateSucceeded == last.op = "Allocate" /\ last.ok

-----------------------------------------------------------------------------
C2_FailsOnlyWhenExhausted ==
    last.op = "Allocate" => (last.ok <=> FreeSlots(last.before) # {})

\* Allocate returned none on a pool of several chunks, all of them full.
C2_Witness ==
    /\ last.op = "Allocate"
    /\ ~last.ok
    /\ Len(chunks) >= 2
    /\ FreeSlots(last.before) = {}

(* C3: with the cursor at (bi, n), Allocate takes the first free ordinal   *)
(* in the order: chunk bi from n to its end; the chunks bi+1 .. last then  *)
(* 0 .. bi-1, each in full; chunk bi from 0 to n; and returns its subnet.  *)
C3_FirstFreeInScanOrder ==
    AllocateSucceeded =>
        /\ Taken = {FirstFree(last.before)}
        /\ <<last.chunk, last.ordinal>> = FirstFree(last.before)
        /\ last.prefix = SlotPrefix(last.before, FirstFree(last.before))

\* A pool of four subnets with the cursor on the third, the only one
\* allocated: Allocate returns the fourth.
C3_Witness ==
    /\ AllocateSucceeded
    /\ Total(last.before) = 4
    /\ {Place(last.before, s) : s \in Allocated(last.before)} = {2}
    /\ Place(last.before, Cursor(last.before)) = 2
    /\ Place(last.before, <<last.chunk, last.ordinal>>) = 3

(* C4: the cursor starts at (0, 0); after an Allocate that took ordinal m  *)
(* of chunk k it is (k+1 mod count, 0) if m is the last ordinal of k, and  *)
(* (k, m+1) otherwise; no other call changes it.                           *)
C4_CursorRule ==
    /\ last.op = "none" => Cursor(Pool) = <<0, 0>>
    /\ AllocateSucceeded =>
          /\ Cardinality(Taken) = 1
          /\ \A s \in Taken :
                Cursor(Pool) = IF s[2] = ChunkLen(chunks[s[1] + 1]) - 1
                               THEN <<(s[1] + 1) % Len(chunks), 0>>
                               ELSE <<s[1], s[2] + 1>>
    /\ last.op # "none" /\ ~AllocateSucceeded => Cursor(Pool) = Cursor(last.before)

\* Allocate took the last ordinal of the last of several chunks, one with
\* more than one ordinal: the cursor wrapped to (0, 0).
C4_Witness ==
    /\ AllocateSucceeded
    /\ Len(chunks) >= 2
    /\ last.chunk = Len(chunks) - 1
    /\ last.ordinal = ChunkLen(chunks[Len(chunks)]) - 1
    /\ last.ordinal >= 1
    /\ Cursor(Pool) = <<0, 0>>

\* The call right before the most recent Allocate was a Release that cleared
\* the bit of the subnet this Allocate returned.
ReofferedJustReleased == AllocateSucceeded /\ last.freed # ZeroPrefix /\ last.prefix = last.freed

(* C5: after Release(p) of an allocated prefix p, the next Allocate        *)
(* returns p only if every other subnet of the pool is allocated at that   *)
(* moment.  As stated the property is C5_AsStated; it fails when p is the  *)
(* first free subnet from the cursor and a free subnet follows it.         *)
C5_AsStated ==
    ReofferedJustReleased => FreeSlots(last.before) = {<<last.chunk, last.ordinal>>}

(* C5, amended: after Release(p) of an allocated prefix p, the next        *)
(* Allocate returns p only if every subnet that the scan from the cursor   *)
(* visits before p is allocated at that moment.                            *)
C5_ReofferedOnlyWhenScanReachesIt ==
    ReofferedJustReleased =>
        \A s \in FreeSlots(last.before) :
            ScanPos(last.before, s) >= ScanPos(last.before, <<last.chunk, last.ordinal>>)

\* The prefix just released is returned while another subnet is free.
C5_Witness ==
    /\ ReofferedJustReleased
    /\ Cardinality(FreeSlots(last.before)) >= 2

(* C6: Release never changes the cursor, whether it returns true or false; *)
(* so on a fresh pool of four subnets where every Allocate is followed by  *)
(* the Release of what it returned, the third Allocate returns the third   *)
(* subnet.                                                                 *)
C6_ReleaseKeepsCursor ==
    /\ last.op = "Release" => Cursor(Pool) = Cursor(last.before)
    /\ (/\ AllocateSucceeded
        /\ Total(Pool) = 4
        /\ last.freed # ZeroPrefix
        /\ Cardinality(everIssued) = 3
        /\ issued = {last.prefix})
       => Place(Pool, <<last.chunk, last.ordinal>>) = 2

\* The second Allocate-Release cycle on a pool of four subnets has ended:
\* the Release cleared a bit and the cursor is on the third subnet.
C6_Witness ==
    /\ last.op = "Release"
    /\ last.ok
    /\ Cleared # {}
    /\ Total(Pool) = 4
    /\ Cardinality(everIssued) = 2
    /\ Allocated(Pool) = {}
    /\ Place(Pool, Cursor(Pool)) = 2

\* x is a valid prefix of the subnet length of some chunk of p, inside that
\* chunk's base.
IsMember(p, x) ==
    /\ x.fam \in {4, 6}
    /\ x.bits >= 0
    /\ x.bits <= BitLen(x.fam)
    /\ \E i \in 1..Len(p.chunks) :
          LET c == p.chunks[i]
              h == Pow2(BitLen(c.base.fam) - c.base.bits)
          IN  /\ x.fam = c.base.fam
              /\ x.bits = c.subbits
              /\ x.addr \div h = c.base.addr \div h

(* C7: Release(p) returns true exactly when p is a valid prefix of the     *)
(* subnet length of a chunk and inside that chunk's base, whatever its     *)
(* allocation status; for every other prefix it returns false and leaves   *)
(* every ledger and the cursor unchanged.  The code does not meet this:    *)
(* for a member subnet of a saturated chunk whose ordinal is not below     *)
(* Len(), Release panics instead of returning true.                        *)
C7_AsStated ==
    last.op = "Release" =>
        /\ ~panicked
        /\ last.ok <=> IsMember(last.before, last.arg)
        /\ ~last.ok => Pool = last.before

(* C8: Release is idempotent: Release(p) called again with no call in      *)
(* between returns what the first call returned (true for a member), does  *)
(* not panic, and leaves the pool as the first call left it.               *)
C8_ReleaseIdempotent ==
    last.op = "Release" /\ last.repeat =>
        /\ ~panicked
        /\ last.ok <=> IsMember(last.before, last.arg)
        /\ Pool = last.before

\* A member prefix is released a second time while other subnets are
\* allocated.
C8_Witness ==
    /\ last.op = "Release"
    /\ last.repeat
    /\ last.ok
    /\ Allocated(Pool) # {}

\* The subnets allocated in pool p, and those Allocate can return.
AllocatedPrefixes(p) == {SlotPrefix(p, s) : s \in Allocated(p)}
AllocatablePrefixes(p) == {SlotPrefix(p, s) : s \in FreeSlots(p)}

(* C9: Release of a prefix that is not allocated (never allocated, already *)
(* released, no member, or a subnet of a saturated chunk that Allocate     *)
(* never returns) has no effect: the call returns, no bit of an allocated  *)
(* subnet is cleared and the set of prefixes Allocate can return does not  *)
(* grow.  The code does not meet this: for a subnet of a saturated chunk   *)
(* that Allocate never returns, the call panics.                           *)
C9_AsStated ==
    last.op = "Release" /\ Masked(last.arg) \notin AllocatedPrefixes(last.before) =>
        /\ ~panicked
        /\ Allocated(Pool) = Allocated(last.before)
        /\ AllocatablePrefixes(Pool) \subseteq AllocatablePrefixes(last.before)

-----------------------------------------------------------------------------
(* Construction of pools.  NewPool is called with lists of at most         *)
(* MaxNets descriptors drawn from Descriptors; the pool variables hold the *)
(* pool of the most recent successful call, and last what the call was     *)
(* given and returned.                                                     *)

MaxNets == 3

\* Bases: unparseable, IPv6 prefixes that nest, meet or are disjoint, one
\* not in masked form, and an IPv4 prefix; sizes in and out of range.
Descriptors ==
    { Net(ZeroPrefix, 2),
      Net(P6(0, 1), 2),
      Net(P6(0, 2), 2),
      Net(P6(1, 2), 3),
      Net(Pfx(6, P6(1, 2).addr + 1, 2), 2),
      Net(P6(1, 1), 1),
      Net(P6(1, 1), AddrBits6 + 1),
      Net(P6(3, 2), 1),
      Net(P4(0, 0), 0),
      Net(P4(0, 0), AddrBits4 + 1) }

NetLists == UNION {[1..k -> Descriptors] : k \in 0..MaxNets}

InitNew ==
    /\ chunks = << >>
    /\ nextChunk = 0
    /\ nextOrdinal = 0
    /\ panicked = FALSE
    /\ last = NoCall
    /\ issued = {}
    /\ issuedLit = {}
    /\ everIssued = {}
    /\ OthersIdle

\* pool, err := NewPool(nets), the first call of the program.
CallNewPool(nets) ==
    /\ last.op = "none"
    /\ \E r \in {NewPool(nets)} :
        /\ chunks' = IF r.ok THEN r.pool.chunks ELSE << >>
        /\ nextChunk' = 0
        /\ nextOrdinal' = 0
        /\ last' = [op |-> "NewPool", nets |-> nets, ok |-> r.ok, err |-> r.err,
                    pool |-> r.pool]
        /\ UNCHANGED <<panicked, issued, issuedLit, everIssued>>
    /\ UNCHANGED otherVars

NextNew == \E nets \in NetLists : CallNewPool(nets)

SpecNew == InitNew /\ [][NextNew]_vars

\* The addresses of a valid prefix, first and last.
FirstAddr(x) == (x.addr \div Pow2(BitLen(x.fam) - x.bits)) * Pow2(BitLen(x.fam) - x.bits)
LastAddr(x) == FirstAddr(x) + Pow2(BitLen(x.fam) - x.bits) - 1

\* Two valid prefixes are identical or one is nested in the other: they
\* have an address in common.
BasesMeet(x, y) ==
    /\ x.fam = y.fam
    /\ FirstAddr(x) <= LastAddr(y)
    /\ FirstAddr(y) <= LastAddr(x)

\* The descriptor is valid on its own.
DescriptorValid(n) ==
    /\ n.Base.fam \in {4, 6}
    /\ n.Base.bits >= 0
    /\ n.Base.bits <= n.Size
    /\ n.Size <= BitLen(n.Base.fam)

NewPoolCalled == last.op = "NewPool"

(* C11: NewPool fails whenever two descriptors have overlapping bases      *)
(* (identical or nested, in either order) and succeeds for every list of   *)
(* valid descriptors whose bases are pairwise disjoint; the chunks of the  *)
(* pool are then those of the descriptors, in the order given.             *)
C11_OverlapRejected ==
    NewPoolCalled =>
        LET nets == last.nets
            valid == \A i \in 1..Len(nets) : DescriptorValid(nets[i])
            meet == \E i, j \in 1..Len(nets) :
                        /\ i < j
                        /\ DescriptorValid(nets[i])
                        /\ DescriptorValid(nets[j])
                        /\ BasesMeet(nets[i].Base, nets[j].Base)
        IN  /\ meet => ~last.ok
            /\ valid /\ ~meet => last.ok
            /\ last.ok =>
                  /\ Len(chunks) = Len(nets)
                  /\ \A i \in 1..Len(nets) :
                        /\ chunks[i].base.fam = nets[i].Base.fam
                        /\ chunks[i].base.addr = FirstAddr(nets[i].Base)
                        /\ chunks[i].base.bits = nets[i].Base.bits
                        /\ chunks[i].subbits = nets[i].Size

\* NewPool refused a list of three valid descriptors of which the third
\* lies inside the first.
C11_Witness ==
    /\ NewPoolCalled
    /\ ~last.ok
    /\ Len(last.nets) = 3
    /\ \A i \in 1..3 : DescriptorValid(last.nets[i])
    /\ ~BasesMeet(last.nets[1].Base, last.nets[2].Base)
    /\ BasesMeet(last.nets[1].Base, last.nets[3].Base)
    /\ last.nets[1].Base # last.nets[3].Base

\* Descriptor i (counted from 0) fails: its base does not parse, or meets
\* the base of an earlier descriptor, or its size is out of range.
Fails(nets, i) ==
    \/ ~DescriptorValid(nets[i + 1])
    \/ \E j \in 1..i : DescriptorValid(nets[j]) /\ BasesMeet(nets[j].Base, nets[i + 1].Base)

FailingIndexes(nets) == {i \in 0..(Len(nets) - 1) : Fails(nets, i)}

-----------------------------------------------------------------------------
(* A chunk used on its own.  NewChunk is called with a base of ChunkBases  *)
(* and a number of subnet bits; the chunk it returns is held as the only   *)
(* element of chunks and is then allocated from and released to directly,  *)
(* and its ordinals are mapped to prefixes and back.  last records the     *)
(* most recent call; calls counts the Allocate calls made on the chunk as  *)
(* long as nothing else was called on it (-1 from then on), freed is the   *)
(* ordinal whose set bit a Release cleared, kept by the Allocate that      *)
(* follows it (-1: none).                                                  *)

ChunkBases ==
    { ZeroPrefix,
      P4(0, 0), P4(1, 1), Pfx(4, 1, 0),
      P6(0, 0), P6(0, 1), P6(1, 1), Pfx(6, 1, 1), P6(1, 2), P6(1, AddrBits6) }

SubnetBitsInputs == (0 - 1)..(AddrBits6 + 1)

\* chk, err := NewChunk(base, subnetBits), the first call of the program.
CallNewChunk(base, subnetBits) ==
    /\ last.op = "none"
    /\ \E r \in {NewChunk(base, subnetBits)} :
          /\ chunks' = IF r.ok THEN <<r.c>> ELSE << >>
          /\ last' = [op |-> "NewChunk", base |-> base, bits |-> subnetBits, ok |-> r.ok,
                      c |-> r.c, calls |-> 0, freed |-> -1]
    /\ UNCHANGED <<nextChunk, nextOrdinal, panicked, issued, issuedLit, everIssued>>
    /\ UNCHANGED otherVars

\* prefix, ordinal, ok := chk.Allocate()
CallChunkAllocate ==
    /\ chunks # << >>
    /\ ~panicked
    /\ \E c \in {chunks[1]} : \E r \in {ChunkAllocate(c, << >>)} :
          /\ chunks' = <<r.c>>
          /\ panicked' = r.panic
          /\ last' = [op |-> "Allocate", ok |-> r.ok, prefix |-> r.prefix,
                      ordinal |-> r.ordinal, before |-> c,
                      calls |-> IF last.calls < 0 THEN -1
                                ELSE Min(last.calls + 1, ChunkLen(c) + 1),
                      freed |-> IF last.op = "Release" THEN last.freed ELSE -1]
    /\ UNCHANGED <<nextChunk, nextOrdinal, issued, issuedLit, everIssued>>
    /\ UNCHANGED otherVars

\* ok := chk.Release(p)
CallChunkRelease(p) ==
    /\ chunks # << >>
    /\ ~panicked
    /\ \E c \in {chunks[1]} : \E r \in {ChunkRelease(c, p)} : \E o \in {ordinalOf(c, p)} :
          /\ chunks' = <<r.c>>
          /\ panicked' = r.panic
          /\ last' = [op |-> "Release", arg |-> p, ok |-> r.ok, fatal |-> o.panic,
                      before |-> c, calls |-> -1,
                      freed |-> IF r.c # c THEN o.n ELSE -1]
    /\ UNCHANGED <<nextChunk, nextOrdinal, issued, issuedLit, everIssued>>
    /\ UNCHANGED otherVars

\* p := chk.prefixOf(n); back, ok := chk.ordinalOf(p), for an ordinal below
\* Len().  Neither changes the chunk.
CallCodec(n) ==
    /\ chunks # << >>
    /\ ~panicked
    /\ \E c \in {chunks[1]} : \E p \in {prefixOf(c, n)} :
          last' = [op |-> "Codec", n |-> n, prefix |-> p, back |-> ordinalOf(c, p),
                   before |-> c, calls |-> -1, freed |-> -1]
    /\ UNCHANGED <<chunks, nextChunk, nextOrdinal, panicked, issued, issuedLit, everIssued>>
    /\ UNCHANGED otherVars

NextChunkCalls ==
    \/ \E base \in ChunkBases : \E subnetBits \in SubnetBitsInputs :
          CallNewChunk(base, subnetBits)
    \/ CallChunkAllocate
    \/ \E p \in ReleaseInputs(chunks) : CallChunkRelease(p)
    \/ \E n \in 0..(IF chunks = << >> THEN 0 - 1 ELSE ChunkLen(chunks[1]) - 1) : CallCodec(n)

SpecChunk == InitNew /\ [][NextChunkCalls]_vars

\* The capacity of a chunk whose subnets have lgn bits more than its base.
Capacity(lgn) == IF lgn < OrdBits THEN Pow2(lgn) ELSE Pow2(OrdBits) - 1

\* The difference between the subnet length and the base length of chunk c.
SubnetFieldBits(c) == c.subbits - c.base.bits

NewChunkCalled == last.op = "NewChunk"

(* C12: NewChunk fails exactly when base is not a valid prefix, or         *)
(* subnetBits < base.bits, or subnetBits > the address length of base; in  *)
(* every other case it succeeds (subnetBits = base.bits and subnetBits =   *)
(* the address length included) and Base() is the masked form of base.     *)
C12_NewChunkValidation ==
    NewChunkCalled =>
        /\ last.ok <=> /\ last.base.fam \in {4, 6}
                       /\ last.base.bits >= 0
                       /\ last.base.bits <= BitLen(last.base.fam)
                       /\ last.bits >= last.base.bits
                       /\ last.bits <= BitLen(last.base.fam)
        /\ last.ok =>
              /\ chunks = <<last.c>>
              /\ ChunkBase(last.c) = Pfx(last.base.fam, FirstAddr(last.base), last.base.bits)

\* NewChunk accepted a base with host bits set and subnets of the full
\* address length.
C12_Witness ==
    /\ NewChunkCalled
    /\ last.ok
    /\ last.bits = BitLen(last.base.fam)
    /\ last.base.addr # FirstAddr(last.base)
    /\ ChunkBase(last.c) # last.base

\* The chunk is the one the most recent call found, but for its ledger.
SameShape(c, d) == c.base = d.base /\ c.subbits = d.subbits /\ ChunkLen(c) = ChunkLen(d)

(* C14: Len() is 2^(subnetBits - base.bits) when that difference is below  *)
(* the ordinal width and 2^width - 1 otherwise; it never changes after     *)
(* construction.                                                           *)
C14_Capacity ==
    /\ NewChunkCalled /\ last.ok => ChunkLen(last.c) = Capacity(last.bits - last.base.bits)
    /\ \A i \in 1..Len(chunks) : ChunkLen(chunks[i]) = Capacity(SubnetFieldBits(chunks[i]))
    /\ last.op \in {"Allocate", "Release", "Codec"} => SameShape(chunks[1], last.before)

\* A chunk whose subnet count is exactly 2^width (fe80::/10 split into /74
\* in the code) after a successful Allocate: Len() is still 2^width - 1.
C14_Witness ==
    /\ last.op = "Allocate"
    /\ last.ok
    /\ SubnetFieldBits(chunks[1]) = OrdBits
    /\ ChunkLen(chunks[1]) = Pow2(OrdBits) - 1

CodecCalled == last.op = "Codec"

(* C15: for every chunk and every ordinal n below Len(),                   *)
(* ordinalOf(prefixOf(n)) returns (n, true), for IPv4 and IPv6 bases.      *)
C15_RoundTrip ==
    CodecCalled => last.back.ok /\ ~last.back.panic /\ last.back.n = last.n

\* The round trip of the last ordinal of a saturated IPv6 chunk.
C15_Witness ==
    /\ CodecCalled
    /\ last.before.base.fam = 6
    /\ SubnetFieldBits(last.before) > OrdBits
    /\ last.n = MaxUint64 - 1
    /\ last.back.n = last.n

C17_AsStated == last.op = "Release" => ~last.fatal

(* C19: a fresh chunk of capacity k answers its first k Allocate() calls   *)
(* with the ordinals 0, 1, .., k-1 in turn, and the next call with none.   *)
C19_AllocateSaturation ==
    last.op = "Allocate" /\ last.calls >= 1 =>
        LET k == Capacity(SubnetFieldBits(last.before))
            i == last.calls - 1
        IN  IF i < k THEN last.ok /\ last.ordinal = i ELSE ~last.ok

\* Call k+1 on a fresh chunk of capacity k >= 2 returned none.
C19_Witness ==
    /\ last.op = "Allocate"
    /\ last.calls = Capacity(SubnetFieldBits(last.before)) + 1
    /\ last.calls >= 3
    /\ ~last.ok

(* C20: Allocate() takes the lowest free ordinal of the chunk; so after    *)
(* two allocations from a fresh chunk, releasing either result and         *)
(* allocating again returns the released prefix with the same ordinal.     *)
C20_LowestFree ==
    last.op = "Allocate" =>
        LET free == {n \in 0..(ChunkLen(last.before) - 1) : n \notin last.before.allocated.set}
        IN  /\ last.ok <=> free # {}
            /\ last.ok =>
                  /\ \A n \in free : last.ordinal <= n
                  /\ last.ordinal \in free
                  /\ last.prefix = SubnetAt(last.before, last.ordinal)
                  /\ chunks[1].allocated.set = last.before.allocated.set \cup {last.ordinal}
            /\ (/\ last.freed >= 0
                /\ Cardinality(last.before.allocated.set) = 1
                /\ last.before.allocated.set \cup {last.freed} = {0, 1})
               => last.ok /\ last.ordinal = last.freed
                          /\ last.prefix = SubnetAt(last.before, last.freed)

\* Of the ordinals 0 and 1 the second was released and is returned again.
C20_Witness ==
    /\ last.op = "Allocate"
    /\ last.ok
    /\ last.freed = 1
    /\ last.before.allocated.set = {0}
    /\ last.ordinal = 1

\* The chunk has at least 2^width subnets: its Len() is saturated.
Saturated(c) == SubnetFieldBits(c) >= OrdBits

(* C18: from a chunk of at least 2^width subnets the pool's Allocate only  *)
(* returns ordinals 0 .. 2^width - 2, each as the correct prefix, distinct *)
(* from every prefix held; the subnet of ordinal 2^width - 1 is never      *)
(* returned; and taking ordinal 2^width - 2 moves the cursor to ordinal 0  *)
(* of the next chunk, the first one after the last.                        *)
C18_SaturatedChunk ==
    AllocateSucceeded /\ Saturated(last.before.chunks[last.chunk + 1]) =>
        LET c == last.before.chunks[last.chunk + 1]
        IN  /\ last.ordinal >= 0
            /\ last.ordinal <= Pow2(OrdBits) - 2
            /\ last.prefix = SubnetAt(c, last.ordinal)
            /\ last.prefix # SubnetAt(c, Pow2(OrdBits) - 1)
            /\ \A s \in Allocated(last.before) : SlotPrefix(last.before, s) # last.prefix
            /\ last.ordinal = Pow2(OrdBits) - 2 =>
                  Cursor(Pool) = <<(last.chunk + 1) % Len(chunks), 0>>

\* Ordinal 2^width - 2 of a saturated first chunk was taken: the cursor is at
\* the start of the second chunk.
C18_Witness ==
    /\ AllocateSucceeded
    /\ Len(chunks) = 2
    /\ Saturated(chunks[1])
    /\ last.chunk = 0
    /\ last.ordinal = Pow2(OrdBits) - 2
    /\ Cursor(Pool) = <<1, 0>>

-----------------------------------------------------------------------------
(* Allocating everything.  A pool is constructed and Allocate is called on *)
(* it again and again, Release never; last.calls counts the calls.         *)

\* The lists the pool is constructed from: those of PoolNets and every list
\* of NetLists that NewPool accepts.
AllocateAllNets == PoolNets \cup {nets \in NetLists : NewPool(nets).ok}

InitAllocateAll ==
    /\ \E nets \in AllocateAllNets :
          \E r \in {NewPool(nets)} :
              /\ chunks = r.pool.chunks
              /\ nextChunk = r.pool.nextChunk
              /\ nextOrdinal = r.pool.nextOrdinal
    /\ panicked = FALSE
    /\ last = [op |-> "none", calls |-> 0]
    /\ issued = {}
    /\ issuedLit = {}
    /\ everIssued = {}
    /\ OthersIdle

\* got, ok := pool.Allocate(), once more; the loop runs up to two calls
\* past the last subnet.
AllocateNext ==
    /\ ~panicked
    /\ \E pool \in {Pool} : \E r \in {PoolAllocate(pool)} :
           /\ last.calls <= Total(pool) + 1
           /\ chunks' = r.pool.chunks
           /\ nextChunk' = r.pool.nextChunk
           /\ nextOrdinal' = r.pool.nextOrdinal
           /\ panicked' = r.panic
           /\ last' = [op |-> "Allocate", ok |-> r.ok, prefix |-> r.prefix,
                       before |-> pool, held |-> r.prefix \in everIssued,
                       calls |-> last.calls + 1]
           /\ issued' = IF r.ok THEN issued \cup {r.prefix} ELSE issued
           /\ issuedLit' = IF r.ok THEN issuedLit \cup {r.prefix} ELSE issuedLit
           /\ everIssued' = IF r.ok THEN everIssued \cup {r.prefix} ELSE everIssued
    /\ UNCHANGED otherVars

NextAllocateAll == AllocateNext

SpecAllocateAll == InitAllocateAll /\ [][NextAllocateAll]_vars

\* Every subnet of the pool that Allocate can hand out, allocated or not.
AllSubnets(p) == {SlotPrefix(p, s) : s \in Slots(p)}

\* The chunks of the pool are of one family and in ascending address order.
ChunksAscending(p) ==
    \A i, j \in 1..Len(p.chunks) :
        i < j => /\ p.chunks[i].base.fam = p.chunks[j].base.fam
                 /\ p.chunks[i].base.addr < p.chunks[j].base.addr

\* The k-th prefix of a set of prefixes in address order, counting from 1.
KthByAddress(X, k) == CHOOSE x \in X : Cardinality({y \in X : y.addr < x.addr}) = k - 1

AllocateAllCalled == last.op = "Allocate"

(* C21: on a newly constructed pool, with no Release, the k-th Allocate    *)
(* returns the subnet at place k - 1 of the chunks laid end to end (chunk  *)
(* order, ascending ordinals within a chunk), a subnet not returned        *)
(* before; once every allocatable subnet was returned Allocate returns     *)
(* none.  When the chunks are listed in address order the k-th result is   *)
(* the k-th subnet of the set of allocatable subnets in address order, so  *)
(* it depends on that set only, not on how chunks divide it.               *)
C21_AllocateAll ==
    AllocateAllCalled =>
        LET p == last.before
            k == last.calls
        IN  /\ ~panicked
            /\ k <= Total(p) =>
                  /\ last.ok
                  /\ ~last.held
                  /\ \E s \in Slots(p) : Place(p, s) = k - 1 /\ last.prefix = SlotPrefix(p, s)
                  /\ ChunksAscending(p) => last.prefix = KthByAddress(AllSubnets(p), k)
            /\ k > Total(p) => ~last.ok /\ last.prefix = ZeroPrefix

\* The pool made by NewPool(nets).
PoolOf(nets) == NewPool(nets).pool

\* Allocate has just returned none for the first time, after it returned
\* the three or more subnets of a pool of two or more chunks in address
\* order, and another list divides the same subnets into chunks differently.
C21_Witness ==
    /\ AllocateAllCalled
    /\ ~last.ok
    /\ Len(chunks) >= 2
    /\ Total(Pool) >= 3
    /\ last.calls = Total(Pool) + 1
    /\ ChunksAscending(Pool)
    /\ \E nets \in AllocateAllNets :
          /\ Len(PoolOf(nets).chunks) # Len(chunks)
          /\ AllSubnets(PoolOf(nets)) = AllSubnets(Pool)

-----------------------------------------------------------------------------
(* C22: when the call before Allocate was a Release that freed subnet p    *)
(* and p is the only free subnet of the pool (every other allocatable      *)
(* subnet is allocated), Allocate returns p, wherever the cursor is and    *)
(* whichever chunk p belongs to, and leaves no subnet free; an Allocate    *)
(* that finds no free subnet returns none.                                 *)
C22_ReallocateOne ==
    last.op = "Allocate" =>
        /\ (last.freed # ZeroPrefix /\ Cardinality(FreeSlots(last.before)) = 1) =>
              /\ last.ok
              /\ last.prefix = last.freed
              /\ FreeSlots(Pool) = {}
              /\ ~PoolAllocate(Pool).ok
        /\ FreeSlots(last.before) = {} => ~last.ok /\ last.prefix = ZeroPrefix

\* The only free subnet, just released, was handed out again from a chunk
\* other than the cursor's, in a pool of three or more chunks.
C22_Witness ==
    /\ last.op = "Allocate"
    /\ last.ok
    /\ last.freed # ZeroPrefix
    /\ last.prefix = last.freed
    /\ Cardinality(FreeSlots(last.before)) = 1
    /\ Len(chunks) >= 3
    /\ last.chunk # last.before.nextChunk
    /\ last.chunk # (last.before.nextChunk + 1) % Len(chunks)

\* Allocate returned none because no subnet was free, right after the only
\* free subnet was handed out again.
C22_WitnessNone ==
    /\ last.op = "Allocate"
    /\ ~last.ok
    /\ FreeSlots(last.before) = {}
    /\ Total(Pool) >= 2

-----------------------------------------------------------------------------
(* C23: when Allocate returned p, the next call released p and the call    *)
(* after that is Allocate, then Allocate succeeds with a prefix other than *)
(* p whenever an allocatable subnet other than p is free at that moment.   *)
C23_NotTheOneJustIssued ==
    (last.op = "Allocate" /\ last.serial) =>
        /\ last.freed # ZeroPrefix
        /\ last.freed \in AllocatablePrefixes(last.before)
        /\ AllocatablePrefixes(last.before) # {last.freed} =>
              last.ok /\ last.prefix # last.freed

\* Allocate, Release of the prefix it returned, Allocate: the second
\* Allocate returned another prefix, of the same chunk, although the one
\* released has the lower ordinal.
C23_Witness ==
    /\ last.op = "Allocate"
    /\ last.serial
    /\ last.ok
    /\ last.prefix # last.freed
    /\ \E s \in Slots(Pool) :
          /\ SlotPrefix(Pool, s) = last.freed
          /\ s[1] = last.chunk
          /\ s[2] < last.ordinal

\* Allocate, Release of the prefix it returned, Allocate: the second
\* Allocate returned the same prefix, no other subnet being free.
C23_WitnessSame ==
    /\ last.op = "Allocate"
    /\ last.serial
    /\ last.ok
    /\ last.prefix = last.freed
    /\ Total(Pool) >= 2

-----------------------------------------------------------------------------
(* The two address families side by side.  An IPv4 chunk, chunks[1], and   *)
(* an IPv6 chunk, chunks[2], whose subnets have the same number of bits    *)
(* more than their bases, are given the same calls: Allocate with the same *)
(* options, and Release of the subnet with the same ordinal.               *)

InitFamilies ==
    /\ \E b4 \in {b \in ChunkBases : b.fam = 4} : \E b6 \in {b \in ChunkBases : b.fam = 6} :
       \E s4 \in SubnetBitsInputs : \E s6 \in SubnetBitsInputs :
       \E r4 \in {NewChunk(b4, s4)} : \E r6 \in {NewChunk(b6, s6)} :
          /\ r4.ok
          /\ r6.ok
          /\ s4 - b4.bits = s6 - b6.bits
          /\ chunks = <<r4.c, r6.c>>
    /\ nextChunk = 0
    /\ nextOrdinal = 0
    /\ panicked = FALSE
    /\ last = [op |-> "none"]
    /\ issued = {}
    /\ issuedLit = {}
    /\ everIssued = {}
    /\ OthersIdle

\* p, n, ok := chk.Allocate(opts...) on both chunks.
AllocateBoth(opts) ==
    /\ ~panicked
    /\ \E r4 \in {ChunkAllocate(chunks[1], opts)} : \E r6 \in {ChunkAllocate(chunks[2], opts)} :
          /\ chunks' = <<r4.c, r6.c>>
          /\ panicked' = (r4.panic \/ r6.panic)
          /\ last' = [op |-> "Allocate", opts |-> opts,
                      ok4 |-> r4.ok, ok6 |-> r6.ok,
                      n4 |-> r4.ordinal, n6 |-> r6.ordinal,
                      p4 |-> r4.prefix, p6 |-> r6.prefix,
                      fatal4 |-> r4.panic, fatal6 |-> r6.panic,
                      before |-> chunks]
    /\ UNCHANGED <<nextChunk, nextOrdinal, issued, issuedLit, everIssued>>
    /\ UNCHANGED otherVars

\* ok := chk.Release(chk.prefixOf(n)) on both chunks.
ReleaseBoth(n) ==
    /\ ~panicked
    /\ \E p4 \in {prefixOf(chunks[1], n)} : \E p6 \in {prefixOf(chunks[2], n)} :
       \E r4 \in {ChunkRelease(chunks[1], p4)} : \E r6 \in {ChunkRelease(chunks[2], p6)} :
          /\ chunks' = <<r4.c, r6.c>>
          /\ panicked' = (r4.panic \/ r6.panic)
          /\ last' = [op |-> "Release", n |-> n,
                      ok4 |-> r4.ok, ok6 |-> r6.ok,
                      p4 |-> p4, p6 |-> p6,
                      fatal4 |-> r4.panic, fatal6 |-> r6.panic,
                      before |-> chunks]
    /\ UNCHANGED <<nextChunk, nextOrdinal, issued, issuedLit, everIssued>>
    /\ UNCHANGED otherVars

\* The options of Allocate: none, or one range, within the chunk or ending
\* one past its last ordinal.
AllocateOpts(c) == {<< >>} \cup {<<lo, hi>> : lo \in 0..ChunkLen(c), hi \in 0..ChunkLen(c)}

NextFamilies ==
    \/ \E opts \in AllocateOpts(chunks[1]) : AllocateBoth(opts)
    \/ \E n \in 0..(ChunkLen(chunks[1]) - 1) : ReleaseBoth(n)

SpecFamilies == InitFamilies /\ [][NextFamilies]_vars

(* C24: an IPv4 chunk and an IPv6 chunk with the same difference between   *)
(* subnet length and base length, given the same calls, have the same      *)
(* capacity and the same ordinals allocated at every step; each Allocate   *)
(* returns the same ok and the same ordinal for both, or aborts for both;  *)
(* each Release of the subnet of an ordinal returns the same for both; the *)
(* prefixes returned are the subnets of that same ordinal.                 *)
C24_FamiliesAgree ==
    /\ chunks[1].allocated = chunks[2].allocated
    /\ last.op = "Allocate" =>
          /\ last.ok4 = last.ok6
          /\ last.n4 = last.n6
          /\ last.fatal4 = last.fatal6
          /\ last.ok4 => /\ last.p4 = SubnetAt(chunks[1], last.n4)
                         /\ last.p6 = SubnetAt(chunks[2], last.n6)
    /\ last.op = "Release" =>
          /\ last.ok4 = last.ok6
          /\ last.fatal4 = last.fatal6

\* Both chunks have two subnets or more; ordinal 0 was released from both
\* and both then allocated it again while a higher ordinal stays allocated.
C24_Witness ==
    /\ last.op = "Allocate"
    /\ last.ok4
    /\ last.ok6
    /\ last.n6 = 0
    /\ last.p4.fam = 4
    /\ last.p6.fam = 6
    /\ 1 \in last.before[1].allocated.set
    /\ 1 \in last.before[2].allocated.set
    /\ chunks[1].base.bits # chunks[2].base.bits

\* Release of the subnet with ordinal 1 returned true for both chunks.
C24_WitnessRelease ==
    /\ last.op = "Release"
    /\ last.n = 1
    /\ last.ok4
    /\ last.ok6
    /\ 1 \in last.before[2].allocated.set

-----------------------------------------------------------------------------
\* NewChunk succeeded with subnetBits equal to the address length of base.
SingleHostSubnets ==
    /\ NewChunkCalled
    /\ last.ok
    /\ last.bits = BitLen(last.base.fam)

(* C25, as stated: a chunk constructed with subnetBits equal to the        *)
(* address length has Len() = 1.  It fails: the chunk holds one subnet per *)
(* address of base (192.168.1.0/24 split into /32 has 256).                *)
C25_AsStated == SingleHostSubnets => ChunkLen(last.c) = 1

(* C25, amended: a chunk constructed with subnetBits equal to the address  *)
(* length has one subnet per address of base, 2^(address length -          *)
(* base.bits) of them, saturated at the largest ordinal value; Len() is 1  *)
(* exactly when base itself has the address length.                        *)
C25_SingleHostCapacity ==
    SingleHostSubnets =>
        /\ ChunkLen(last.c) = Min(Pow2(BitLen(last.base.fam) - last.base.bits), MaxUint64)
        /\ ChunkLen(last.c) = 1 <=> last.base.bits = BitLen(last.base.fam)

\* An IPv6 base shorter than the address length split into subnets of the
\* address length: more than one subnet.
C25_Witness ==
    /\ SingleHostSubnets
    /\ last.base.fam = 6
    /\ last.base.bits < AddrBits6
    /\ ChunkLen(last.c) > 1

\* A base of the address length split into subnets of the address length:
\* one subnet.
C25_WitnessOne ==
    /\ SingleHostSubnets
    /\ last.base.bits = BitLen(last.base.fam)
    /\ ChunkLen(last.c) = 1

-----------------------------------------------------------------------------
(* cleanups.Composite.  A cleanup is a function that returns an error or   *)
(* nil; here it is a record of a name and the message of the error it     *)
(* returns ("" for nil).  An error value is the sequence of the messages   *)
(* joined in it, nil the empty sequence.  The function Release returns     *)
(* closes over the slice it took from the Composite: cleanup.fn.  last is  *)
(* the most recent call: the call before it (prev), the cleanups the       *)
(* Composite held when it was made (before), the indexes of the cleanups   *)
(* it ran in the order it ran them (ran) and the error it returned (err).  *)

MaxCleanups == 3

\* The cleanups a caller registers: one that succeeds and two that fail.
CleanupFns ==
    { [name |-> "a", err |-> ""],
      [name |-> "b", err |-> "b failed"],
      [name |-> "c", err |-> "c failed"] }

\* errors.Join(errs, err): nil values are discarded, nil if nothing is left.
ErrorsJoin(errs, err) == IF err = "" THEN errs ELSE Append(errs, err)

\* call giving up at the first cleanup that returns an error.
RECURSIVE callStopAtError(_, _, _)
callStopAtError(cs, idx, acc) ==
    IF idx = 0 \/ acc.err # << >> THEN acc
    ELSE callStopAtError(cs, idx - 1,
                         [err |-> ErrorsJoin(acc.err, cs[idx].err),
                          ran |-> Append(acc.ran, idx)])

\* call(ctx, cleanups): the loop from the last cleanup down to the first;
\* idx counts from 1, ran lists the indexes of the cleanups in the order
\* they were run.
RECURSIVE call(_, _, _)
call(cs, idx, acc) ==
    IF idx = 0 THEN acc
    ELSE call(cs, idx - 1,
              [err |-> ErrorsJoin(acc.err, cs[idx].err), ran |-> Append(acc.ran, idx)])

NothingRan == [err |-> << >>, ran |-> << >>]

\* c.Add(f)
CompositeAdd(c, f) == [c EXCEPT !.cleanups = Append(@, f)]

\* err := c.Call(ctx)
CompositeCall(c) ==
    The({[c |-> [c EXCEPT !.cleanups = << >>], err |-> r.err, ran |-> r.ran] :
            r \in {call(c.cleanups, Len(c.cleanups), NothingRan)}})

\* Release taking the slice after it has emptied the Composite.
CompositeReleaseLate(c) ==
    [c |-> [c EXCEPT !.cleanups = << >>], fn |-> << >>]

\* fn := c.Release(): fn is the slice the returned function closes over.
CompositeRelease(c) ==
    [c |-> [c EXCEPT !.cleanups = << >>], fn |-> c.cleanups]

\* fn(ctx), for the function returned by Release.
ReleasedCall(fn) == call(fn, Len(fn), NothingRan)

InitComposite ==
    /\ AllocIdle
    /\ proxy = [pc |-> "none"]
    /\ composite = [cleanups |-> << >>]
    /\ cleanup = [set |-> FALSE]
    /\ heap = << >>
    /\ last = [op |-> "none"]

\* cleanups.Add(f)
DoAdd(f) ==
    /\ Len(composite.cleanups) < MaxCleanups
    /\ composite' = CompositeAdd(composite, f)
    /\ last' = [op |-> "Add", prev |-> last.op, before |-> composite.cleanups,
                ran |-> << >>, err |-> << >>]
    /\ UNCHANGED <<allocVars, proxy, cleanup, heap>>

\* err := cleanups.Call(ctx)
DoCall ==
    /\ \E r \in {CompositeCall(composite)} :
          /\ composite' = r.c
          /\ last' = [op |-> "Call", prev |-> last.op, before |-> composite.cleanups,
                      ran |-> r.ran, err |-> r.err]
    /\ UNCHANGED <<allocVars, proxy, cleanup, heap>>

\* cleanup = cleanups.Release(); held remembers what the Composite held
\* when Release was called.
DoRelease ==
    /\ \E r \in {CompositeRelease(composite)} :
          /\ composite' = r.c
          /\ cleanup' = [set |-> TRUE, fn |-> r.fn, held |-> composite.cleanups]
          /\ last' = [op |-> "Release", prev |-> last.op, before |-> composite.cleanups,
                      ran |-> << >>, err |-> << >>]
    /\ UNCHANGED <<allocVars, proxy, heap>>

\* err := cleanup(ctx), the function returned by Release.
DoCleanup ==
    /\ cleanup.set
    /\ \E r \in {ReleasedCall(cleanup.fn)} :
          last' = [op |-> "cleanup", prev |-> last.op, before |-> composite.cleanups,
                   ran |-> r.ran, err |-> r.err]
    /\ UNCHANGED <<allocVars, proxy, composite, cleanup, heap>>

NextComposite ==
    \/ \E f \in CleanupFns : DoAdd(f)
    \/ DoCall
    \/ DoRelease
    \/ DoCleanup

SpecComposite == InitComposite /\ [][NextComposite]_vars

\* The indexes of a list of cleanups from the last to the first.
ReverseOrder(cs) == [i \in 1..Len(cs) |-> Len(cs) + 1 - i]

\* The messages of the cleanups of the list that fail, from the last to the
\* first.
RECURSIVE FailuresFrom(_, _)
FailuresFrom(cs, idx) ==
    IF idx = 0 THEN << >>
    ELSE (IF cs[idx].err = "" THEN << >> ELSE <<cs[idx].err>>) \o FailuresFrom(cs, idx - 1)

Failures(cs) == FailuresFrom(cs, Len(cs))

(* C28: Call runs every cleanup the Composite holds exactly once, from the *)
(* one added last to the one added first, also those that follow a         *)
(* cleanup that failed; it returns the errors of the failing ones joined   *)
(* in that order, nil when none failed; it leaves the Composite empty, so  *)
(* a Call right after a Call runs nothing and returns nil; Add appends.    *)
C28_CallRunsAllInReverse ==
    /\ last.op = "Call" =>
          /\ last.ran = ReverseOrder(last.before)
          /\ last.err = Failures(last.before)
          /\ (last.err = << >>) <=> (\A i \in 1..Len(last.before) : last.before[i].err = "")
          /\ composite.cleanups = << >>
          /\ last.prev = "Call" => last.ran = << >> /\ last.err = << >>
    /\ last.op = "Add" =>
          /\ Len(composite.cleanups) = Len(last.before) + 1
          /\ SubSeq(composite.cleanups, 1, Len(last.before)) = last.before

\* Call ran three cleanups of which the one added last and the one added
\* first failed and the one between them succeeded.
C28_Witness ==
    /\ last.op = "Call"
    /\ Len(last.before) = 3
    /\ last.ran = <<3, 2, 1>>
    /\ last.before[3].err # ""
    /\ last.before[2].err = ""
    /\ last.before[1].err # ""
    /\ last.err = <<last.before[3].err, last.before[1].err>>

\* A second Call right after a Call.
C28_WitnessSecondCall ==
    /\ last.op = "Call"
    /\ last.prev = "Call"
    /\ last.ran = << >>

(* C29: Release empties the Composite and runs nothing, so that a Call     *)
(* right after it runs nothing and returns nil; the function Release       *)
(* returned runs the cleanups the Composite held when Release was called,  *)
(* from last to first, and returns their errors joined, as Call would have *)
(* done then; cleanups added since are not run by it and stay in the       *)
(* Composite.                                                              *)
C29_ReleaseHandsOver ==
    /\ last.op = "Release" =>
          /\ composite.cleanups = << >>
          /\ last.ran = << >>
          /\ cleanup.set
          /\ cleanup.held = last.before
    /\ (last.op = "Call" /\ last.prev = "Release") => last.ran = << >> /\ last.err = << >>
    /\ last.op = "cleanup" =>
          /\ last.ran = ReverseOrder(cleanup.held)
          /\ last.err = Failures(cleanup.held)
          /\ composite.cleanups = last.before

\* The function returned by Release ran the two cleanups handed over, one
\* of them failing, while the Composite holds a cleanup added since.
C29_Witness ==
    /\ last.op = "cleanup"
    /\ Len(cleanup.held) = 2
    /\ last.ran = <<2, 1>>
    /\ Len(last.err) = 1
    /\ composite.cleanups # << >>
    /\ composite.cleanups[1] \notin {cleanup.held[1], cleanup.held[2]}

\* A Call right after a Release that handed over cleanups.
C29_WitnessCallAfterRelease ==
    /\ last.op = "Call"
    /\ last.prev = "Release"
    /\ cleanup.set
    /\ cleanup.held # << >>

-----------------------------------------------------------------------------
\* The two ranges Allocate would scan the cursor chunk with.
RightRange(p) == <<p.nextOrdinal, SubW(ChunkLen(p.chunks[p.nextChunk + 1]), 1, OrdBits)>>
LeftRange(p) == <<0, p.nextOrdinal>>

\* A range lies within the ledger of chunk c.
InBounds(c, range) == 0 <= range[1] /\ range[1] <= range[2] /\ range[2] < ChunkLen(c)

(* C30: in every state of a pool with one chunk or more the cursor names a *)
(* chunk of the pool and an ordinal below that chunk's Len(), whatever the *)
(* capacities of the chunks and also for a saturated chunk; the ranges     *)
(* [nextOrdinal, Len() - 1] and [0, nextOrdinal] Allocate scans are then   *)
(* within the chunk's ledger, and no Allocate call aborts.                 *)
C30_CursorInBounds ==
    /\ Len(chunks) >= 1 =>
          /\ 0 <= nextChunk
          /\ nextChunk < Len(chunks)
          /\ 0 <= nextOrdinal
          /\ nextOrdinal <= ChunkLen(chunks[nextChunk + 1]) - 1
          /\ InBounds(chunks[nextChunk + 1], RightRange(Pool))
          /\ InBounds(chunks[nextChunk + 1], LeftRange(Pool))
    /\ last.op = "Allocate" => ~panicked

\* Allocate left the cursor on the last ordinal of a saturated chunk, in a
\* pool whose chunks differ in capacity.
C30_Witness ==
    /\ last.op = "Allocate"
    /\ last.ok
    /\ Len(chunks) >= 2
    /\ Saturated(chunks[nextChunk + 1])
    /\ nextOrdinal = ChunkLen(chunks[nextChunk + 1]) - 1
    /\ \E i \in 1..Len(chunks) : ChunkLen(chunks[i]) # ChunkLen(chunks[nextChunk + 1])

\* Allocate moved the cursor from the last chunk back to chunk 0.
C30_WitnessWrap ==
    /\ last.op = "Allocate"
    /\ last.ok
    /\ Len(chunks) >= 2
    /\ last.chunk = Len(chunks) - 1
    /\ nextChunk = 0
    /\ nextOrdinal = 0

-----------------------------------------------------------------------------
(* portmapper.StartProxy and the docker-proxy child.  proxy holds the call *)
(* and both processes:                                                     *)
(*   proxyPath, proto, sock  the arguments: the path, pb.Proto, and what   *)
(*               listenSock is (nil, a TCP socket, a UDP socket);          *)
(*   pc          where StartProxy stands; stop, retErr what it returned;   *)
(*   listenSock, r, w  the parent's files: "none" not created, "open",     *)
(*               "closed"; w is "nil" once it was closed and set to nil;   *)
(*   reader, buf, errchan  the goroutine that reads the status;            *)
(*   child       where the child's main stands; f and sockfd its files;    *)
(*   ctor        what the proxy constructor returned; err the variable err *)
(*               of main that is tested after the switch;                  *)
(*   reports, written  how often the child wrote to the pipe, and what:    *)
(*               the first two bytes, then the rest.                       *)

ProxyPaths == {"", "/usr/bin/docker-proxy"}
Protos == {"tcp", "udp", "sctp", "icmp"}
Socks == {"nil", "tcp", "udp"}

NoValue == [sent |-> FALSE, kind |-> "", msg |-> ""]
ErrValue(kind, msg) == [sent |-> TRUE, kind |-> kind, msg |-> msg]
NilValue == [sent |-> TRUE, kind |-> "nil", msg |-> ""]

InitProxy ==
    /\ AllocIdle
    /\ last = [op |-> "none"]
    /\ composite = [cleanups |-> << >>]
    /\ cleanup = [set |-> FALSE]
    /\ heap = << >>
    /\ \E path \in ProxyPaths : \E proto \in Protos : \E sock \in Socks :
          proxy = [pc |-> "entry", proxyPath |-> path, proto |-> proto, sock |-> sock,
                   listenSock |-> IF sock = "nil" THEN "nil" ELSE "open",
                   r |-> "none", w |-> "none", deferred |-> FALSE,
                   reader |-> "none", buf |-> "", errchan |-> NoValue,
                   child |-> "none", f |-> "none", sockfd |-> "none",
                   ctor |-> "none", err |-> "", reports |-> 0, written |-> << >>,
                   stop |-> FALSE, retErr |-> ""]

\* A return of StartProxy: the deferred function, if it was registered,
\* closes w unless it is nil, r, and listenSock.
Return(p, stop, retErr) ==
    [p EXCEPT !.pc = "returned", !.stop = stop, !.retErr = retErr,
              !.w = IF p.deferred /\ @ = "open" THEN "closed" ELSE @,
              !.r = IF p.deferred THEN "closed" ELSE @,
              !.listenSock = IF p.deferred /\ @ = "open" THEN "closed" ELSE @]

\* if proxyPath == "" { return nil, fmt.Errorf(...) }
CheckPath ==
    /\ proxy.pc = "entry"
    /\ proxy' = IF proxy.proxyPath = ""
                THEN Return(proxy, FALSE, "no path provided for userland-proxy binary")
                ELSE [proxy EXCEPT !.pc = "pipe"]
    /\ UNCHANGED <<ipamVars, composite, cleanup, heap>>

\* r, w, err := os.Pipe(); on success the deferred function is registered.
OpenPipe(ok) ==
    /\ proxy.pc = "pipe"
    /\ proxy' = IF ok
                THEN [proxy EXCEPT !.pc = "start", !.r = "open", !.w = "open",
                                   !.deferred = TRUE]
                ELSE Return(proxy, FALSE, "proxy unable to open os.Pipe")
    /\ UNCHANGED <<ipamVars, composite, cleanup, heap>>

\* cmd.Start() in its goroutine and err := <-started.  The child gets w as
\* fd 3 and, if listenSock is not nil, listenSock as fd 4.
StartCmd(ok) ==
    /\ proxy.pc = "start"
    /\ proxy' = IF ok
                THEN [proxy EXCEPT !.pc = "closeW", !.child = "main", !.f = "open",
                                   !.sockfd = IF proxy.sock = "nil" THEN "invalid" ELSE "open"]
                ELSE Return(proxy, FALSE, "start failed")
    /\ UNCHANGED <<ipamVars, composite, cleanup, heap>>

\* w.Close(); w = nil; the goroutine that reads the status is started.
CloseW ==
    /\ proxy.pc = "closeW"
    /\ proxy' = [proxy EXCEPT !.pc = "select", !.w = "nil", !.reader = "read"]
    /\ UNCHANGED <<ipamVars, composite, cleanup, heap>>

\* r.Read(buf) returns when the pipe holds data, when every write end is
\* closed, or when r was closed; buf keeps its zero bytes if nothing was
\* read.  If buf is "0\n" nil is sent on errchan.
ReaderRead ==
    /\ proxy.reader = "read"
    /\ proxy.written # << >> \/ proxy.f # "open" \/ proxy.r = "closed"
    /\ \E buf \in {IF proxy.r = "open" /\ proxy.written # << >>
                   THEN proxy.written[1] ELSE ""} :
          proxy' = IF buf = "0\n"
                   THEN [proxy EXCEPT !.buf = buf, !.reader = "done", !.errchan = NilValue]
                   ELSE [proxy EXCEPT !.buf = buf, !.reader = "readAll"]
    /\ UNCHANGED <<ipamVars, composite, cleanup, heap>>

\* errStr, err := io.ReadAll(r) returns when every write end is closed, or
\* with an error when r was closed; an error is sent on errchan.
ReaderReadAll ==
    /\ proxy.reader = "readAll"
    /\ proxy.f # "open" \/ proxy.r = "closed"
    /\ proxy' = [proxy EXCEPT
                    !.reader = "done",
                    !.errchan =
                        IF proxy.r = "closed"
                        THEN ErrValue("error reading exit status from userland proxy", "")
                        ELSE ErrValue("error starting userland proxy",
                                      IF Len(proxy.written) >= 2 THEN proxy.written[2] ELSE "")]
    /\ UNCHANGED <<ipamVars, composite, cleanup, heap>>

\* case err := <-errchan: of the select, and the return that follows it.
SelectErrchan ==
    /\ proxy.pc = "select"
    /\ proxy.errchan.sent
    /\ proxy' = IF proxy.errchan.kind = "nil"
                THEN Return(proxy, TRUE, "")
                ELSE Return(proxy, FALSE, proxy.errchan.kind)
    /\ UNCHANGED <<ipamVars, composite, cleanup, heap>>

\* case <-time.After(16 * time.Second): of the select.
SelectTimeout ==
    /\ proxy.pc = "select"
    /\ proxy' = Return(proxy, FALSE, "timed out starting the userland proxy")
    /\ UNCHANGED <<ipamVars, composite, cleanup, heap>>

\* What the switch of main leaves behind: fatal (log.Fatal: the child exits
\* there), the constructor's result ctor, and err, the variable tested after
\* the switch.  In the tcp and udp cases "l, err := ..." declares a new err
\* for the case, which is the one the constructor's error is assigned to;
\* the err tested after the switch keeps its nil.  ctorOk is what the
\* constructor does if it is called.
MainSwitch(proto, sockfd, sock, ctorOk) ==
    LET built(e) == [fatal |-> FALSE, ctor |-> IF ctorOk THEN "ok" ELSE "failed", err |-> e]
        fatal == [fatal |-> TRUE, ctor |-> "none", err |-> ""]
    IN  IF proto \in {"tcp", "udp"}
        THEN IF sockfd = "invalid" \/ sock # proto THEN fatal ELSE built("")
        ELSE IF proto = "sctp"
        THEN built(IF ctorOk THEN "" ELSE "constructor failed")
        ELSE fatal

\* main up to the end of the switch.  A child that exits has its files
\* closed.
ChildSwitch(ctorOk) ==
    /\ proxy.child = "main"
    /\ \E s \in {MainSwitch(proxy.proto, proxy.sockfd, proxy.sock, ctorOk)} :
          proxy' = IF s.fatal
                   THEN [proxy EXCEPT !.child = "exited", !.f = "closed", !.sockfd = "closed"]
                   ELSE [proxy EXCEPT !.child = "report", !.ctor = s.ctor, !.err = s.err]
    /\ UNCHANGED <<ipamVars, composite, cleanup, heap>>

\* sockfd.Close(), then fmt.Fprintf(f, "1\n%s", err) or fmt.Fprint(f, "0\n").
ChildWrite ==
    /\ proxy.child = "report"
    /\ proxy' = [proxy EXCEPT !.child = "wrote", !.sockfd = "closed",
                              !.reports = @ + 1,
                              !.written = IF proxy.err # "" THEN <<"1\n", proxy.err>>
                                          ELSE <<"0\n">>]
    /\ UNCHANGED <<ipamVars, composite, cleanup, heap>>

\* f.Close(), then os.Exit(1) or p.Run().
ChildClose ==
    /\ proxy.child = "wrote"
    /\ proxy' = [proxy EXCEPT !.f = "closed",
                              !.child = IF proxy.err # "" THEN "exited" ELSE "serving"]
    /\ UNCHANGED <<ipamVars, composite, cleanup, heap>>

NextProxy ==
    \/ CheckPath
    \/ \E ok \in BOOLEAN : OpenPipe(ok)
    \/ \E ok \in BOOLEAN : StartCmd(ok)
    \/ CloseW
    \/ ReaderRead
    \/ ReaderReadAll
    \/ SelectErrchan
    \/ SelectTimeout
    \/ \E ctorOk \in BOOLEAN : ChildSwitch(ctorOk)
    \/ ChildWrite
    \/ ChildClose

SpecProxy == InitProxy /\ [][NextProxy]_vars

\* StartProxy has returned, having been given a socket.
ReturnedWithSock == proxy.pc = "returned" /\ proxy.sock # "nil"

(* C26, as stated: whenever StartProxy returns, listenSock is closed if    *)
(* proxyPath is not empty, whichever return it is; if proxyPath is empty   *)
(* an error is returned and listenSock is still open.  It fails: the       *)
(* return after a failed os.Pipe precedes the defer that closes listenSock.*)
C26_AsStated ==
    ReturnedWithSock =>
        IF proxy.proxyPath # ""
        THEN proxy.listenSock = "closed"
        ELSE proxy.retErr # "" /\ ~proxy.stop /\ proxy.listenSock = "open"

\* What does hold: listenSock is closed on every return that follows a
\* successful os.Pipe, and open on the two returns that precede it.
ListenSockClosedOncePiped ==
    ReturnedWithSock =>
        /\ proxy.r # "none" => proxy.listenSock = "closed" /\ proxy.r = "closed"
                               /\ proxy.w \in {"closed", "nil"}
        /\ proxy.r = "none" => proxy.listenSock = "open" /\ proxy.retErr # ""

\* The child is past its start-up: it serves or has exited.
ChildSettled == proxy.child \in {"serving", "exited"}

\* The proxy started normally: its constructor was called and returned no
\* error.
StartedNormally == proxy.ctor = "ok"

(* C27, as stated: a child past its start-up has written its status to the *)
(* pipe exactly once, "0\n" if the proxy started normally and "1\n" with   *)
(* the error otherwise, and serves only after "0\n"; StartProxy returns a  *)
(* stop function and a nil error only if it read "0\n", an error           *)
(* otherwise.  It fails: a child that ends in log.Fatal writes nothing,    *)
(* and the tcp and udp cases write "0\n" when the constructor failed.      *)
C27_AsStated ==
    /\ ChildSettled =>
          /\ proxy.reports = 1
          /\ (proxy.written[1] = "0\n") <=> StartedNormally
          /\ ~StartedNormally => Len(proxy.written) = 2 /\ proxy.written[1] = "1\n"
          /\ proxy.child = "serving" => StartedNormally
    /\ proxy.pc = "returned" =>
          /\ proxy.stop <=> proxy.retErr = ""
          /\ proxy.stop => proxy.buf = "0\n"
          /\ (proxy.r # "none" /\ proxy.buf # "0\n") => proxy.retErr # ""

\* What does hold: the child writes at most once, "1\n" with the error
\* exactly when the err it tests is not nil, and StartProxy returns a stop
\* function and no error exactly when it read "0\n" and did not time out.
StatusAsTested ==
    /\ proxy.reports <= 1
    /\ proxy.reports = 1 => ((proxy.written[1] = "0\n") <=> proxy.err = "")
    /\ proxy.child = "serving" => proxy.written = <<"0\n">>
    /\ proxy.pc = "returned" =>
          /\ proxy.stop <=> proxy.retErr = ""
          /\ proxy.stop => proxy.buf = "0\n"

-----------------------------------------------------------------------------
(* The prefixes a pool has handed out.                                     *)

\* Every address of prefix x is an address of prefix b.
Contains(b, x) ==
    /\ x.fam = b.fam
    /\ x.bits >= b.bits
    /\ FirstAddr(b) <= FirstAddr(x)
    /\ LastAddr(x) <= LastAddr(b)

(* C31: a prefix returned by a successful Allocate is valid, in masked     *)
(* form, has the subnet length of the chunk it was taken from and lies     *)
(* inside that chunk's base; the prefixes handed out and not released      *)
(* since are the subnets whose bits are set, and no two of them overlap.   *)
C31_AllocatedWellFormed ==
    /\ AllocateSucceeded =>
          /\ IsValid(last.prefix)
          /\ Masked(last.prefix) = last.prefix
          /\ last.prefix.bits = last.before.chunks[last.chunk + 1].subbits
          /\ Contains(ChunkBase(last.before.chunks[last.chunk + 1]), last.prefix)
    /\ issued = AllocatedPrefixes(Pool)
    /\ \A x \in issued : \A y \in issued : x # y => ~Overlaps(x, y)

\* Allocate returned the second subnet of the pool's second chunk while two
\* more subnets, one of them of another chunk, are handed out.
C31_Witness ==
    /\ AllocateSucceeded
    /\ last.chunk = 1
    /\ last.ordinal = 1
    /\ Cardinality(issued) >= 3
    /\ \E x \in issued : ~Overlaps(ChunkBase(chunks[2]), x)

\* The chunks of pool p that prefix x is a member of: x is valid, has the
\* chunk's subnet length and lies inside its base.
MemberChunks(p, x) ==
    {i \in 1..Len(p.chunks) :
        /\ IsValid(x)
        /\ x.bits = p.chunks[i].subbits
        /\ Contains(ChunkBase(p.chunks[i]), x)}

(* C32: Release(p) clears at most one ledger bit and sets none: p is a     *)
(* member of at most one chunk, the ledger of every other chunk is left as *)
(* it was, and in the chunk p is a member of no bit but the one of p's     *)
(* subnet changes.                                                         *)
C32_ReleaseClearsAtMostOneBit ==
    last.op = "Release" =>
        /\ Cardinality(MemberChunks(last.before, last.arg)) <= 1
        /\ Len(chunks) = Len(last.before.chunks)
        /\ \A i \in 1..Len(chunks) :
              \/ chunks[i] = last.before.chunks[i]
              \/ /\ i \in MemberChunks(last.before, last.arg)
                 /\ chunks[i].base = last.before.chunks[i].base
                 /\ chunks[i].subbits = last.before.chunks[i].subbits
                 /\ chunks[i].allocated.bits = last.before.chunks[i].allocated.bits
                 /\ \E n \in last.before.chunks[i].allocated.set :
                       /\ SubnetAt(chunks[i], n) = Masked(last.arg)
                       /\ chunks[i].allocated.set = last.before.chunks[i].allocated.set \ {n}
        /\ Cardinality(Cleared) <= 1
        /\ Taken = {}

\* Release cleared the bit of one subnet while another subnet of the same
\* chunk and a subnet of another chunk stay allocated.
C32_Witness ==
    /\ last.op = "Release"
    /\ last.ok
    /\ Cardinality(Cleared) = 1
    /\ \E s \in Cleared : \E t \in Allocated(Pool) : \E u \in Allocated(Pool) :
          s[1] = t[1] /\ s[1] # u[1]

-----------------------------------------------------------------------------
(* C33: NetworkChunk.Release never hands the ledger an ordinal that is not *)
(* below its capacity: for every prefix, a member of a saturated chunk     *)
(* with subnet ordinal 2^64 - 1 or more included, Release returns true or  *)
(* false and does not panic.  The code does not meet this: ordinalOf       *)
(* returns the subnet field of a member prefix whatever Len() is, and      *)
(* Release panics with the error of Unset (or ordinalOf panics itself when *)
(* the field does not fit the ordinal width).                              *)
C33_AsStated ==
    last.op = "Release" =>
        /\ ~panicked
        /\ \A o \in {ordinalOf(last.before, last.arg)} : o.ok => o.n < ChunkLen(last.before)

\* What holds instead: Release returns, true for a member and false for any
\* other prefix, whenever the subnet ordinal of the prefix is below Len();
\* it panics exactly for the members of which it is not.
ReleasePanicsBeyondLen ==
    last.op = "Release" =>
        panicked <=> \E n \in ChunkLen(last.before)..(TrueLen(last.before) - 1) :
                        SubnetAt(last.before, n) = Masked(last.arg)

-----------------------------------------------------------------------------
(* C34: whenever ordinalOf reports ok for a prefix p, the ordinal n it     *)
(* returns is below Len() and prefixOf(n) equals p.  The code does not     *)
(* meet this: for a member of a saturated chunk ordinalOf returns ok with  *)
(* the subnet field of p, which need not be below Len() (the ordinal       *)
(* Release then panics on); and for a p given with host bits set,          *)
(* prefixOf(n) is the masked form of p, not p.                             *)
C34_AsStated ==
    last.op = "Release" =>
        \A o \in {ordinalOf(last.before, last.arg)} :
            o.ok => /\ o.n < ChunkLen(last.before)
                    /\ prefixOf(last.before, o.n) = last.arg

\* What holds instead: the ordinal returned with ok is the subnet field of
\* p, below the unsaturated subnet count, and prefixOf of it is p masked.
OrdinalOfInvertsMasked ==
    last.op = "Release" =>
        \A o \in {ordinalOf(last.before, last.arg)} :
            o.ok => /\ o.n < TrueLen(last.before)
                    /\ prefixOf(last.before, o.n) = Masked(last.arg)
                    /\ (o.n < ChunkLen(last.before)) <=> ~panicked

-----------------------------------------------------------------------------
(* C35: an Allocate that returns no prefix leaves the pool as it found it: *)
(* every ledger bit of every chunk and the cursor are unchanged, and       *)
(* nothing is added to the prefixes handed out.                            *)
C35_FailedAllocateChangesNothing ==
    last.op = "Allocate" /\ ~last.ok =>
        /\ ~panicked
        /\ last.prefix = ZeroPrefix
        /\ Pool = last.before
        /\ Taken = {} /\ Cleared = {}

\* Allocate failed on a pool of several chunks, all of whose subnets are
\* allocated, with the cursor away from the start of the pool.
C35_Witness ==
    /\ last.op = "Allocate"
    /\ ~last.ok
    /\ Len(chunks) >= 2
    /\ Allocated(Pool) # {}
    /\ FreeSlots(Pool) = {}
    /\ Cursor(Pool) # <<0, 0>>

-----------------------------------------------------------------------------
\* The range the options of an Allocate on chunk c ask for, whether it lies
\* within the ledger, and the clear bits in it.
RangeOf(c, opts) == IF opts = << >> THEN <<0, ChunkLen(c) - 1>> ELSE opts
RangeInBounds(c, opts) ==
    opts = << >> \/ (opts[1] <= opts[2] /\ opts[2] < ChunkLen(c))
FreeInRange(c, opts) == Free(c.allocated, RangeOf(c, opts)[1], RangeOf(c, opts)[2])

(* C36: NetworkChunk.Allocate returns none exactly when the range asked    *)
(* for lies within the ledger and has no clear bit; with a range that is   *)
(* out of bounds (hi >= Len() or lo > hi) it panics, and in both cases no  *)
(* ledger bit is set; otherwise it returns ok and has set one bit of the   *)
(* range.  Checked for the IPv4 and for the IPv6 chunk.                    *)
C36_NoneOnlyWhenNoBit ==
    last.op = "Allocate" =>
        /\ (~last.ok6 /\ ~last.fatal6) <=>
              (RangeInBounds(last.before[2], last.opts) /\ FreeInRange(last.before[2], last.opts) = {})
        /\ last.fatal6 <=> ~RangeInBounds(last.before[2], last.opts)
        /\ ~last.ok6 => chunks[2] = last.before[2]
        /\ last.ok6 => /\ last.n6 \in FreeInRange(last.before[2], last.opts)
                       /\ chunks[2].allocated.set = last.before[2].allocated.set \cup {last.n6}
        /\ (~last.ok4 /\ ~last.fatal4) <=>
              (RangeInBounds(last.before[1], last.opts) /\ FreeInRange(last.before[1], last.opts) = {})
        /\ last.fatal4 <=> ~RangeInBounds(last.before[1], last.opts)
        /\ ~last.ok4 => chunks[1] = last.before[1]
        /\ (last.fatal4 \/ last.fatal6) <=> panicked

\* Allocate was given a range that ends one past the last ordinal of a
\* chunk with clear bits and allocated bits, and panicked.
C36_Witness ==
    /\ last.op = "Allocate"
    /\ last.opts # << >>
    /\ last.opts[1] <= last.opts[2]
    /\ last.opts[2] = ChunkLen(last.before[2])
    /\ last.fatal6
    /\ panicked
    /\ last.before[2].allocated.set # {}
    /\ Free(last.before[2].allocated, 0, ChunkLen(last.before[2]) - 1) # {}

\* Allocate returned none for a range within bounds whose bits are all set
\* while a bit outside the range is clear.
C36_WitnessNone ==
    /\ last.op = "Allocate"
    /\ ~last.ok6
    /\ ~last.fatal6
    /\ last.opts # << >>
    /\ Free(last.before[2].allocated, 0, ChunkLen(last.before[2]) - 1) # {}

-----------------------------------------------------------------------------
(* ipam.Range and ipam.RangeAllocator.  A Range is a value [base,          *)
(* subbits]; a RangeAllocator is a Range with the ledger of its subnets,   *)
(* [r, alloc], held as the only element of chunks.  last records the most  *)
(* recent call.                                                            *)

\* ipbits.Add(ip, x, shift): ip + (x << shift) in the width of the address.
ipbitsAdd(f, addr, x, shift) ==
    IF f = 4
    THEN AddW(addr, Lsh(x % Pow2(BitLen(4)), shift, BitLen(4)), BitLen(4))
    ELSE AddW(addr, Lsh(x, shift, BitLen(6)), BitLen(6))

\* ipbits.Field(ip, l, u): the bits [l, u) of the address, counted from the
\* most significant one, as an integer.
ipbitsField(f, addr, l, u) == Rsh(addr % Pow2(BitLen(f) - l), BitLen(f) - u)

\* NewRange(base, bits).
NewRange(base, bits) ==
    IF ~IsValid(base)
    THEN [ok |-> FALSE, r |-> << >>]
    ELSE IF bits > BitLen(base.fam) \/ base.bits > bits
    THEN [ok |-> FALSE, r |-> << >>]
    ELSE [ok |-> TRUE, r |-> [base |-> Masked(base), subbits |-> bits]]

\* Range.Base.
RangeBase(r) == r.base

\* Range.Len: saturating.
RangeLen(r) ==
    IF r.subbits - r.base.bits < OrdBits
    THEN Lsh(1, r.subbits - r.base.bits, OrdBits)
    ELSE MaxUint64

\* Subnet refusing only the ordinals above Len().
RangeSubnetOffByOne(r, n) ==
    IF n > RangeLen(r) THEN ZeroPrefix
    ELSE PrefixFrom(r.base.fam,
                    ipbitsAdd(r.base.fam, Masked(r.base).addr, n,
                              BitLen(r.base.fam) - r.subbits),
                    r.subbits)

\* Range.Subnet(n).
RangeSubnet(r, n) ==
    IF n >= RangeLen(r) THEN ZeroPrefix
    ELSE PrefixFrom(r.base.fam,
                    ipbitsAdd(r.base.fam, Masked(r.base).addr, n,
                              BitLen(r.base.fam) - r.subbits),
                    r.subbits)

\* Range.SubnetID(p).
RangeSubnetID(r, p) ==
    IF ~IsValid(p) \/ p.bits # r.subbits \/ ~Overlaps(r.base, p)
    THEN [ok |-> FALSE, n |-> 0]
    ELSE [ok |-> TRUE, n |-> ipbitsField(p.fam, Masked(p).addr, r.base.bits, p.bits)]

\* Range.Allocator.
Allocator(r) == [r |-> r, alloc |-> BitmapNew(RangeLen(r))]

\* RangeAllocator.Len.
AllocatorLen(a) == a.alloc.bits

\* RangeAllocator.Allocate(opts...): a is the allocator afterwards.
AllocatorAllocate(a, opts) ==
    The({IF r.err = "NoBitAvailable"
         THEN [ok |-> FALSE, panic |-> FALSE, prefix |-> ZeroPrefix, ordinal |-> 0, a |-> a]
         ELSE IF r.err # ""
         THEN [ok |-> FALSE, panic |-> TRUE, prefix |-> ZeroPrefix, ordinal |-> 0, a |-> a]
         ELSE [ok |-> TRUE, panic |-> FALSE, prefix |-> RangeSubnet(a.r, r.n), ordinal |-> r.n,
               a |-> [a EXCEPT !.alloc = r.b]] :
            r \in {SetAnyOpts(a.alloc, opts)}})

\* RangeAllocator.Release(p): a is the allocator afterwards.
AllocatorRelease(a, p) ==
    The({IF ~o.ok THEN [ok |-> FALSE, panic |-> FALSE, a |-> a]
         ELSE The({IF u.err # "" THEN [ok |-> FALSE, panic |-> TRUE, a |-> a]
                   ELSE [ok |-> TRUE, panic |-> FALSE, a |-> [a EXCEPT !.alloc = u.b]] :
                      u \in {Unset(a.alloc, o.n)}}) :
            o \in {RangeSubnetID(a.r, p)}})

\* The bases NewRange is called with: invalid, IPv4, IPv6, one with host
\* bits set.
RangeBases == { ZeroPrefix, P4(0, 0), P6(0, 1), Pfx(6, 1, 1), P6(1, 2) }

\* The options Allocate is called with: none, or a range that starts at one
\* of the first two ordinals and ends at the last ordinal or one past it.
RangeOpts(a) ==
    {<< >>} \cup {<<lo, hi>> : lo \in 0..1, hi \in (AllocatorLen(a) - 1)..AllocatorLen(a)}

\* r, err := NewRange(base, bits); a := r.Allocator(), the first calls of
\* the program.
CallNewRange(base, bits) ==
    /\ last.op = "none"
    /\ \E r \in {NewRange(base, bits)} :
          /\ chunks' = IF r.ok THEN <<Allocator(r.r)>> ELSE << >>
          /\ last' = [op |-> "NewRange", base |-> base, bits |-> bits, ok |-> r.ok]
    /\ UNCHANGED <<nextChunk, nextOrdinal, panicked, issued, issuedLit, everIssued>>
    /\ UNCHANGED otherVars

\* p := r.Subnet(n), for any uint64 n.
CallSubnet(n) ==
    /\ chunks # << >>
    /\ ~panicked
    /\ last' = [op |-> "Subnet", n |-> n, prefix |-> RangeSubnet(chunks[1].r, n)]
    /\ UNCHANGED <<chunks, nextChunk, nextOrdinal, panicked, issued, issuedLit, everIssued>>
    /\ UNCHANGED otherVars

\* prefix, ordinal, ok := a.Allocate(opts...)
CallAllocatorAllocate(opts) ==
    /\ chunks # << >>
    /\ ~panicked
    /\ \E a \in {chunks[1]} : \E r \in {AllocatorAllocate(a, opts)} :
          /\ chunks' = <<r.a>>
          /\ panicked' = r.panic
          /\ last' = [op |-> "Allocate", opts |-> opts, ok |-> r.ok, prefix |-> r.prefix,
                      ordinal |-> r.ordinal, before |-> a]
          /\ issued' = IF r.ok THEN issued \cup {r.prefix} ELSE issued
    /\ UNCHANGED <<nextChunk, nextOrdinal, issuedLit, everIssued>>
    /\ UNCHANGED otherVars

\* ok := a.Release(p), for a prefix Allocate returned and has not been
\* released since, the zero prefix, or the base of the range.
CallAllocatorRelease(p) ==
    /\ chunks # << >>
    /\ ~panicked
    /\ \E a \in {chunks[1]} : \E r \in {AllocatorRelease(a, p)} :
          /\ chunks' = <<r.a>>
          /\ panicked' = r.panic
          /\ last' = [op |-> "Release", arg |-> p, ok |-> r.ok, before |-> a]
          /\ issued' = issued \ {p}
    /\ UNCHANGED <<nextChunk, nextOrdinal, issuedLit, everIssued>>
    /\ UNCHANGED otherVars

NextRange ==
    \/ \E base \in RangeBases : \E bits \in SubnetBitsInputs : CallNewRange(base, bits)
    \/ \E n \in 0..MaxUint64 : CallSubnet(n)
    \/ \E opts \in RangeOpts(IF chunks = << >> THEN Allocator([base |-> ZeroPrefix, subbits |-> 0])
                             ELSE chunks[1]) : CallAllocatorAllocate(opts)
    \/ \E p \in issued \cup {ZeroPrefix}
                \cup (IF chunks = << >> THEN {} ELSE {RangeBase(chunks[1].r)}) :
          CallAllocatorRelease(p)

SpecRange == InitNew /\ [][NextRange]_vars

\* The n-th subnet of range r, computed without wrap-around.
NthSubnet(r, n) ==
    Pfx(r.base.fam, r.base.addr + n * Pow2(BitLen(r.base.fam) - r.subbits), r.subbits)

(* C37: Range.Subnet(n) returns the zero prefix exactly when n >= Len(),   *)
(* and the n-th subnet of the range, a valid prefix, otherwise; the ledger *)
(* of an allocator has Len() bits, so RangeAllocator.Allocate never        *)
(* returns ok together with the zero prefix: the prefix is the subnet of   *)
(* the ordinal returned.                                                   *)
C37_SubnetZeroBeyondLen ==
    /\ chunks # << >> /\ last.op \in {"NewRange", "Subnet", "Allocate", "Release"} =>
          AllocatorLen(chunks[1]) = RangeLen(chunks[1].r)
    /\ last.op = "Subnet" =>
          /\ (last.prefix = ZeroPrefix) <=> (last.n >= RangeLen(chunks[1].r))
          /\ last.n < RangeLen(chunks[1].r) =>
                /\ IsValid(last.prefix)
                /\ last.prefix = NthSubnet(chunks[1].r, last.n)
    /\ last.op = "Allocate" /\ last.ok =>
          /\ last.prefix # ZeroPrefix
          /\ IsValid(last.prefix)
          /\ last.ordinal < RangeLen(chunks[1].r)
          /\ last.prefix = NthSubnet(chunks[1].r, last.ordinal)

\* Subnet(Len()) of a range of more than one subnet returned the zero
\* prefix.
C37_Witness ==
    /\ last.op = "Subnet"
    /\ last.n = RangeLen(chunks[1].r)
    /\ last.n > 1
    /\ last.prefix = ZeroPrefix

\* Allocate returned the last subnet of a saturated range.
C37_WitnessAllocate ==
    /\ last.op = "Allocate"
    /\ last.ok
    /\ chunks[1].r.subbits - chunks[1].r.base.bits >= OrdBits
    /\ last.ordinal = MaxUint64 - 1
    /\ last.prefix # ZeroPrefix

-----------------------------------------------------------------------------
(* C38: NewPool of no descriptors succeeds and returns a pool without      *)
(* chunks; on that pool every Allocate returns no prefix and every Release *)
(* returns false, for the zero prefix and for valid prefixes, no call      *)
(* panics and the pool stays as it was constructed.                        *)
C38_EmptyPool ==
    /\ NewPool(<< >>).ok
    /\ NewPool(<< >>).pool = NoPool
    /\ chunks = << >> =>
          /\ ~panicked
          /\ Pool = NoPool
          /\ last.op = "Allocate" => ~last.ok /\ last.prefix = ZeroPrefix
          /\ last.op = "Release" => ~last.ok
          /\ issued = {}

\* On the pool without chunks Allocate was called and returned no prefix.
C38_Witness ==
    /\ chunks = << >>
    /\ last.op = "Allocate"
    /\ ~last.ok
    /\ last.prefix = ZeroPrefix
    /\ last.before = NoPool

\* On the pool without chunks a valid prefix was released.
C38_WitnessRelease ==
    /\ chunks = << >>
    /\ last.op = "Release"
    /\ IsValid(last.arg)
    /\ last.arg.fam = 6
    /\ ~last.ok

-----------------------------------------------------------------------------
(* NetworkPool.Allocate and NetworkPool.Release one ledger operation at a  *)
(* time.  last is the frame of the call in progress or of the call that    *)
(* returned last: pc is where the call stands ("right": the scan of the    *)
(* cursor chunk from the cursor on; "after" and "before": the two loops    *)
(* over the other chunks, chk being the loop variable; "left": the scan of *)
(* the cursor chunk up to the cursor; "release": the loop of Release;      *)
(* "idle": no call in progress), scans lists the chunks whose ledger the   *)
(* call has operated on, in that order, and before is the pool the call    *)
(* found.                                                                  *)

Frame(op, pc, chk, scans, ok, prefix, arg, before) ==
    [op |-> op, pc |-> pc, chk |-> chk, scans |-> scans, ok |-> ok, prefix |-> prefix,
     arg |-> arg, before |-> before]

InitSteps ==
    /\ \E nets \in PoolNets : \E r \in {NewPool(nets)} :
          /\ r.ok
          /\ chunks = r.pool.chunks
          /\ nextChunk = r.pool.nextChunk
          /\ nextOrdinal = r.pool.nextOrdinal
    /\ panicked = FALSE
    /\ last = Frame("none", "idle", 0, << >>, FALSE, ZeroPrefix, ZeroPrefix, NoPool)
    /\ issued = {}
    /\ issuedLit = {}
    /\ everIssued = {}
    /\ OthersIdle

\* The loops over the other chunks both starting from chunk 0 and running
\* over all the chunks.
AfterScanFromZero(p, pc, chk) ==
    IF pc = "right" THEN [pc |-> "after", chk |-> 0]
    ELSE IF pc = "after"
    THEN IF chk + 1 < Len(p.chunks) THEN [pc |-> "after", chk |-> chk + 1]
         ELSE [pc |-> "before", chk |-> 0]
    ELSE IF pc = "before" /\ chk + 1 < Len(p.chunks) THEN [pc |-> "before", chk |-> chk + 1]
    ELSE [pc |-> "left", chk |-> p.nextChunk]

\* Where Allocate goes on after a scan at pc (with loop variable chk) that
\* found no clear bit: the next iteration of the loops over the other
\* chunks, or the scan of the left half once the loops are exhausted.
AfterScan(p, pc, chk) ==
    IF pc = "right"
    THEN IF p.nextChunk + 1 < Len(p.chunks) THEN [pc |-> "after", chk |-> p.nextChunk + 1]
         ELSE IF 0 < p.nextChunk THEN [pc |-> "before", chk |-> 0]
         ELSE [pc |-> "left", chk |-> p.nextChunk]
    ELSE IF pc = "after"
    THEN IF chk + 1 < Len(p.chunks) THEN [pc |-> "after", chk |-> chk + 1]
         ELSE IF 0 < p.nextChunk THEN [pc |-> "before", chk |-> 0]
         ELSE [pc |-> "left", chk |-> p.nextChunk]
    ELSE IF pc = "before" /\ chk + 1 < p.nextChunk THEN [pc |-> "before", chk |-> chk + 1]
    ELSE [pc |-> "left", chk |-> p.nextChunk]

\* The options of the chunk.Allocate made at pc.
ScanOpts(p, pc) ==
    IF pc = "right"
    THEN <<p.nextOrdinal, SubW(ChunkLen(p.chunks[p.nextChunk + 1]), 1, OrdBits)>>
    ELSE IF pc = "left" THEN <<0, p.nextOrdinal>>
    ELSE << >>

\* pool.Allocate() is called: the test of len(p.chunks).
BeginAllocate ==
    /\ ~panicked
    /\ last.pc = "idle"
    /\ last' = IF Len(chunks) = 0
               THEN Frame("Allocate", "idle", 0, << >>, FALSE, ZeroPrefix, ZeroPrefix, Pool)
               ELSE Frame("Allocate", "right", nextChunk, << >>, FALSE, ZeroPrefix, ZeroPrefix, Pool)
    /\ UNCHANGED <<allocVars, otherVars>>

\* One chunk.Allocate of Allocate, with the setNext and return that follow
\* it when it succeeds, and the final return when the last scan fails.
ScanStep ==
    /\ ~panicked
    /\ last.op = "Allocate"
    /\ last.pc \in {"right", "after", "before", "left"}
    /\ \E p \in {Pool} : \E r \in {AllocateIn(p, last.chk, ScanOpts(p, last.pc))} :
       \E to \in {AfterScan(p, last.pc, last.chk)} :
          /\ chunks' = r.pool.chunks
          /\ nextChunk' = r.pool.nextChunk
          /\ nextOrdinal' = r.pool.nextOrdinal
          /\ panicked' = r.panic
          /\ last' = [last EXCEPT
                         !.scans = Append(@, last.chk),
                         !.ok = r.ok,
                         !.prefix = r.prefix,
                         !.pc = IF r.ok \/ r.panic \/ last.pc = "left" THEN "idle" ELSE to.pc,
                         !.chk = IF r.ok \/ r.panic \/ last.pc = "left" THEN last.chk ELSE to.chk]
    /\ UNCHANGED <<issued, issuedLit, everIssued, otherVars>>

\* pool.Release(prefix) is called: the loop is entered, or not for a pool
\* without chunks.
BeginRelease(prefix) ==
    /\ ~panicked
    /\ last.pc = "idle"
    /\ last' = Frame("Release", IF Len(chunks) = 0 THEN "idle" ELSE "release", 0, << >>,
                     FALSE, ZeroPrefix, prefix, Pool)
    /\ UNCHANGED <<allocVars, otherVars>>

\* One iteration of the loop of Release: ok = ok || p.chunks[i].Release(prefix).
ReleaseStep ==
    /\ ~panicked
    /\ last.pc = "release"
    /\ \E r \in {IF last.ok THEN [ok |-> TRUE, panic |-> FALSE, c |-> chunks[last.chk + 1]]
                 ELSE ChunkRelease(chunks[last.chk + 1], last.arg)} :
          /\ chunks' = [chunks EXCEPT ![last.chk + 1] = r.c]
          /\ panicked' = r.panic
          /\ last' = [last EXCEPT
                         !.scans = IF last.ok THEN @ ELSE Append(@, last.chk),
                         !.ok = r.ok,
                         !.pc = IF r.panic \/ last.chk + 1 >= Len(chunks) THEN "idle" ELSE "release",
                         !.chk = IF r.panic \/ last.chk + 1 >= Len(chunks) THEN @ ELSE @ + 1]
    /\ UNCHANGED <<nextChunk, nextOrdinal, issued, issuedLit, everIssued, otherVars>>

NextSteps ==
    \/ BeginAllocate
    \/ ScanStep
    \/ \E p \in ReleaseInputs(chunks) : BeginRelease(p)
    \/ ReleaseStep

\* A call that has begun runs on: the caller's goroutine executes the body
\* of Allocate or Release without waiting for anything.
SpecSteps == InitSteps /\ [][NextSteps]_vars /\ WF_vars(ScanStep) /\ WF_vars(ReleaseStep)

\* How often chunk i occurs in a list of chunk indexes.
Occurrences(seq, i) == Cardinality({k \in 1..Len(seq) : seq[k] = i})

CallRunning == last.pc # "idle"
CallOver == last.pc = "idle" \/ panicked

\* The number of ledger operations of the call in last is bounded: an
\* Allocate scans the cursor chunk at most twice and every other chunk at
\* most once; a Release consults every chunk at most once, in index order.
ScansBounded ==
    /\ last.op = "Allocate" =>
          /\ Len(last.scans) <= Len(last.before.chunks) + 1
          /\ Occurrences(last.scans, last.before.nextChunk) <= 2
          /\ \A i \in 0..(Len(last.before.chunks) - 1) :
                i # last.before.nextChunk => Occurrences(last.scans, i) <= 1
    /\ last.op = "Release" =>
          /\ Len(last.scans) <= Len(last.before.chunks)
          /\ \A i \in 0..(Len(last.before.chunks) - 1) : Occurrences(last.scans, i) <= 1
          /\ \A k \in 1..Len(last.scans) : last.scans[k] = k - 1

\* A call that has returned has done what Allocate and Release do as a
\* whole.
StepsAgree ==
    last.pc = "idle" /\ ~panicked =>
        /\ last.op = "Allocate" =>
              \A r \in {PoolAllocate(last.before)} :
                  r.pool = Pool /\ r.ok = last.ok /\ r.prefix = last.prefix
        /\ last.op = "Release" =>
              \A r \in {PoolRelease(last.before, last.arg)} : r.pool = Pool /\ r.ok = last.ok

(* C39: every Allocate and every Release ends, after a bounded number of   *)
(* ledger operations: Allocate makes at most one scan more than the pool   *)
(* has chunks (the cursor chunk at most twice, every other chunk at most   *)
(* once), Release consults each chunk at most once.                        *)
C39_CallsBounded ==
    /\ [](ScansBounded /\ StepsAgree)
    /\ (CallRunning ~> CallOver)

\* An Allocate on a pool of four chunks returned no prefix after five
\* scans, two of them of the cursor chunk.
C39_Witness ==
    /\ last.op = "Allocate"
    /\ last.pc = "idle"
    /\ ~last.ok
    /\ Len(last.before.chunks) = 4
    /\ Len(last.scans) = 5
    /\ last.before.nextChunk > 0
    /\ Occurrences(last.scans, last.before.nextChunk) = 2

\* A Release returned true after it consulted the first chunk without
\* success and then the second.
C39_WitnessRelease ==
    /\ last.op = "Release"
    /\ last.pc = "idle"
    /\ last.ok
    /\ Len(chunks) >= 3
    /\ last.scans = <<0, 1>>

-----------------------------------------------------------------------------
(* Two pools side by side.  The ledger of a chunk is a pointer             *)
(* (allocated *bitmap.Bitmap): here the address of a bitmap in heap, the   *)
(* bitmaps made by bitmap.New in the order they were made.  chunks,        *)
(* nextChunk and nextOrdinal hold the fields of the first and of the       *)
(* second pool as a pair.  last records the most recent call, the pool it  *)
(* was made on (on), and for the pool it was not made on the value it had  *)
(* before the call (other) and what an Allocate on it would have returned  *)
(* then (otherNext).                                                       *)

\* The lists of descriptors the two pools are constructed from: the same
\* list twice (a chunk of one subnet and a chunk of two), and two lists that
\* share a descriptor.
PoolNetsPairs ==
    { << << Net(P6(0, 2), 2), Net(P6(1, 2), 3) >>, << Net(P6(0, 2), 2), Net(P6(1, 2), 3) >> >>,
      << << Net(P6(0, 2), 2), Net(P6(1, 2), 3) >>, << Net(P6(1, 2), 3) >> >> }

\* The chunks of a pool with each new ledger placed on the heap h: what
\* bitmap.New returns is a pointer to a bitmap no one else holds.
RECURSIVE PlaceLedgers(_, _, _)
PlaceLedgers(cs, done, h) ==
    IF Len(done) = Len(cs) THEN [chunks |-> done, heap |-> h]
    ELSE PlaceLedgers(cs,
                      Append(done, [cs[Len(done) + 1] EXCEPT !.allocated = Len(h) + 1]),
                      Append(h, cs[Len(done) + 1].allocated))

\* NewPool handing out the ledgers of the first pool made on the heap to
\* every pool with chunks of the same place in the list.
NewPoolOnHeapShared(nets, h) ==
    The({IF ~r.ok THEN [ok |-> FALSE, pool |-> NoPool, heap |-> h]
         ELSE IF Len(h) >= Len(r.pool.chunks)
         THEN [ok |-> TRUE,
               pool |-> [r.pool EXCEPT !.chunks =
                            [i \in 1..Len(r.pool.chunks) |->
                                [r.pool.chunks[i] EXCEPT !.allocated = i]]],
               heap |-> h]
         ELSE The({[ok |-> TRUE, pool |-> [r.pool EXCEPT !.chunks = pl.chunks], heap |-> pl.heap] :
                      pl \in {PlaceLedgers(r.pool.chunks, << >>, h)}}) :
            r \in {NewPool(nets)}})

\* pool, err := NewPool(nets), with the ledgers on the heap h.
NewPoolOnHeap(nets, h) ==
    The({IF ~r.ok THEN [ok |-> FALSE, pool |-> NoPool, heap |-> h]
         ELSE The({[ok |-> TRUE, pool |-> [r.pool EXCEPT !.chunks = pl.chunks], heap |-> pl.heap] :
                      pl \in {PlaceLedgers(r.pool.chunks, << >>, h)}}) :
            r \in {NewPool(nets)}})

\* Pool i of the two, its ledgers as pointers.
PoolAt(i) == [chunks |-> chunks[i], nextChunk |-> nextChunk[i], nextOrdinal |-> nextOrdinal[i]]

\* A pool with every ledger pointer replaced by the bitmap it points to.
Deref(p, h) ==
    [p EXCEPT !.chunks = [k \in 1..Len(p.chunks) |->
                             [p.chunks[k] EXCEPT !.allocated = h[p.chunks[k].allocated]]]]

\* The heap after a call on the pool with pointers p that left the pool
\* with the values q: the bitmaps the call changed are changed where they
\* are.
Store(p, q, h) ==
    [a \in 1..Len(h) |->
        IF \E k \in 1..Len(p.chunks) :
              p.chunks[k].allocated = a /\ q.chunks[k].allocated # h[a]
        THEN q.chunks[CHOOSE k \in 1..Len(p.chunks) :
                         p.chunks[k].allocated = a /\ q.chunks[k].allocated # h[a]].allocated
        ELSE h[a]]

\* What the next Allocate on pool i would return.
NextAllocation(i) ==
    The({[ok |-> r.ok, prefix |-> r.prefix] : r \in {PoolAllocate(Deref(PoolAt(i), heap))}})

InitPools ==
    /\ AllocIdle
    /\ OthersIdle
    /\ last = [op |-> "none"]

\* a, _ := NewPool(netsA); b, _ := NewPool(netsB), the first calls of the
\* program.
CallNewPools(pair) ==
    /\ last.op = "none"
    /\ \E a \in {NewPoolOnHeap(pair[1], heap)} : \E b \in {NewPoolOnHeap(pair[2], a.heap)} :
          /\ a.ok
          /\ b.ok
          /\ chunks' = <<a.pool.chunks, b.pool.chunks>>
          /\ nextChunk' = <<a.pool.nextChunk, b.pool.nextChunk>>
          /\ nextOrdinal' = <<a.pool.nextOrdinal, b.pool.nextOrdinal>>
          /\ heap' = b.heap
          /\ last' = [op |-> "NewPool", nets |-> pair]
    /\ UNCHANGED <<panicked, issued, issuedLit, everIssued, proxy, composite, cleanup>>

\* prefix, ok := pool.Allocate(), on pool i.
AllocateOn(i) ==
    /\ last.op # "none"
    /\ ~panicked
    /\ \E p \in {PoolAt(i)} : \E r \in {PoolAllocate(Deref(p, heap))} :
          /\ chunks' = [chunks EXCEPT ![i] = p.chunks]
          /\ nextChunk' = [nextChunk EXCEPT ![i] = r.pool.nextChunk]
          /\ nextOrdinal' = [nextOrdinal EXCEPT ![i] = r.pool.nextOrdinal]
          /\ heap' = Store(p, r.pool, heap)
          /\ panicked' = r.panic
          /\ last' = [op |-> "Allocate", on |-> i, ok |-> r.ok, prefix |-> r.prefix,
                      arg |-> ZeroPrefix,
                      other |-> Deref(PoolAt(3 - i), heap),
                      otherNext |-> NextAllocation(3 - i)]
    /\ UNCHANGED <<issued, issuedLit, everIssued, proxy, composite, cleanup>>

\* ok := pool.Release(prefix), on pool i.
ReleaseOn(i, prefix) ==
    /\ last.op # "none"
    /\ ~panicked
    /\ \E p \in {PoolAt(i)} : \E r \in {PoolRelease(Deref(p, heap), prefix)} :
          /\ heap' = Store(p, r.pool, heap)
          /\ panicked' = r.panic
          /\ last' = [op |-> "Release", on |-> i, ok |-> r.ok, prefix |-> ZeroPrefix,
                      arg |-> prefix,
                      other |-> Deref(PoolAt(3 - i), heap),
                      otherNext |-> NextAllocation(3 - i)]
    /\ UNCHANGED <<chunks, nextChunk, nextOrdinal, issued, issuedLit, everIssued,
                   proxy, composite, cleanup>>

\* The prefixes Release is called with on pool i: the subnets of the chunks
\* of both pools.
ReleaseInputsOn ==
    IF chunks = << >> THEN {}
    ELSE UNION {UNION {{SubnetAt(chunks[i][k], n) :
                           n \in 0..(heap[chunks[i][k].allocated].bits - 1)} :
                          k \in 1..Len(chunks[i])} :
                   i \in 1..2}

NextPools ==
    \/ \E pair \in PoolNetsPairs : CallNewPools(pair)
    \/ \E i \in 1..2 : AllocateOn(i)
    \/ \E i \in 1..2 : \E prefix \in ReleaseInputsOn : ReleaseOn(i, prefix)

SpecPools == InitPools /\ [][NextPools]_vars

\* The ledger pointers of pool i.
Ledgers(i) == {chunks[i][k].allocated : k \in 1..Len(chunks[i])}

(* C40: two pools share no allocation state, also when they are made from  *)
(* the same list of descriptors: no ledger belongs to both, and an         *)
(* Allocate or a Release on one pool leaves the cursor and every ledger    *)
(* bit of the other pool, and with them what its next Allocate returns,    *)
(* as they were.                                                           *)
C40_PoolsIndependent ==
    /\ chunks # << >> =>
          /\ Ledgers(1) \cap Ledgers(2) = {}
          /\ Cardinality(Ledgers(1)) = Len(chunks[1])
          /\ Cardinality(Ledgers(2)) = Len(chunks[2])
    /\ last.op \in {"Allocate", "Release"} =>
          /\ Deref(PoolAt(3 - last.on), heap) = last.other
          /\ NextAllocation(3 - last.on) = last.otherNext

\* Two pools made from the same list: the second pool handed out a prefix
\* that the first pool has handed out and still holds, while the pools'
\* cursors differ.
C40_Witness ==
    /\ last.op = "Allocate"
    /\ last.on = 2
    /\ last.ok
    /\ chunks[1] # << >>
    /\ \A k \in 1..Len(chunks[1]) :
          /\ k <= Len(chunks[2])
          /\ chunks[1][k].base = chunks[2][k].base
          /\ chunks[1][k].subbits = chunks[2][k].subbits
    /\ last.prefix \in AllocatedPrefixes(last.other)
    /\ Cursor(last.other) # Cursor(Deref(PoolAt(2), heap))

\* A prefix both pools hold was released to the first pool and stays
\* allocated in the second.
C40_WitnessRelease ==
    /\ last.op = "Release"
    /\ last.on = 1
    /\ last.ok
    /\ last.arg \in AllocatedPrefixes(last.other)
    /\ last.arg \notin AllocatedPrefixes(Deref(PoolAt(1), heap))

=============================================================================
